---- MODULE Spec2Model ----
(***************************************************************************)
(* A model of BaseSigner._sign_build (common_library/signer/base_signer.py) *)
(* and of the collaborators it drives: the download pool, the verification *)
(* client, the external signers, the signature audit, the upload pool and  *)
(* the task reporter.  One behaviour is one task run.                      *)
(*                                                                         *)
(* An artifact is identified by the position of its descriptor in the      *)
(* task: the descriptor's id is that position, so ids are distinct and     *)
(* PkgPath is injective.                                                    *)
(***************************************************************************)
EXTENDS Integers, Sequences, FiniteSets, TLC

\* ------------------------------------------------------------------ bounds
MaxPkgs == 2

\* ------------------------------------------------------- program constants
DEFAULT_PARALLEL_FILE_UPLOAD_SIZE == 52428800
try_count == 3
FetchPoolWidth == 4
UploadPoolWidth == 4
AuditPoolWidth == 10
RpmBatchSize == 50

\* ------------------------------------------------------------------ inputs
NoKeyId == ""

\* self.__key_ids: the key ring held by the signer
key_ids ==
  [k \in {"AB", "ef", "Gh"} |->
     [password |-> "pw",
      fingerprint |-> "FP",
      subkeys |-> CASE k = "AB" -> <<"CD">>
                    [] k = "ef" -> <<>>
                    [] k = "Gh" -> <<"Cd", "EE">>]]

TaskKeyIds == {NoKeyId, "AB", "ZZ"}

\* str.lower() on the key identifiers of the model
Lower(s) ==
  CASE s = "AB" -> "ab"
    [] s = "CD" -> "cd"
    [] s = "Cd" -> "cd"
    [] s = "EE" -> "ee"
    [] s = "EF" -> "ef"
    [] s = "Gh" -> "gh"
    [] s = "GH" -> "gh"
    [] s = "XX" -> "xx"
    [] OTHER -> s

\* Package descriptors a task may carry.  A name is <<stem, extension>>.
Descriptors ==
  { [type |-> "rpm", name |-> <<"a", "rpm">>, file_name |-> <<"a", "rpm">>, cas_hash |-> "pre"],
    [type |-> "deb", name |-> <<"b", "deb">>, file_name |-> <<"b", "deb">>, cas_hash |-> ""],
    [type |-> "dsc", name |-> <<"a", "dsc">>, file_name |-> <<"a", "dsc">>, cas_hash |-> "pre"] }

Tasks == UNION { [1..n -> Descriptors] : n \in 0..MaxPkgs }

\* Descriptors whose file name does not end in the extension of their kind
\* (line 121: a descriptor without 'type' and 'package_type' is an rpm)
MisnamedDescriptors ==
  { [type |-> "rpm", name |-> <<"c", "deb">>, file_name |-> <<"c", "deb">>, cas_hash |-> ""],
    [type |-> "deb", name |-> <<"c", "rpm">>, file_name |-> <<"c", "rpm">>, cas_hash |-> ""] }

NamedTasks ==
  UNION { [1..n -> Descriptors \cup MisnamedDescriptors] : n \in 0..MaxPkgs }

\* What hash_file and os.stat may find on a signed file
Hashes == {"h1", "h2"}
FileSizes ==
  { DEFAULT_PARALLEL_FILE_UPLOAD_SIZE - 1,
    DEFAULT_PARALLEL_FILE_UPLOAD_SIZE,
    DEFAULT_PARALLEL_FILE_UPLOAD_SIZE + 1 }

\* What the audit may find in a signed RPM: the file is gone, its header has
\* no signature, or the header's signature message lists these signers.
Headers ==
  { [exists |-> FALSE, signed |-> FALSE, signers |-> <<>>],
    [exists |-> TRUE, signed |-> FALSE, signers |-> <<>>],
    [exists |-> TRUE, signed |-> TRUE, signers |-> <<"AB">>],
    [exists |-> TRUE, signed |-> TRUE, signers |-> <<"cd">>],
    [exists |-> TRUE, signed |-> TRUE, signers |-> <<"EE">>],
    [exists |-> TRUE, signed |-> TRUE, signers |-> <<"EE", "ab">>] }

VARIABLES
  keyid, task_packages, notar_enabled, parallel_upload,
  pc, exc, stats, sign_status,
  dl, fetched, pkg_info_mapping, downloaded, packages,
  verify_seen, pkg_verification_mapping,
  dirExists, files,
  plan_pos, files_to_upload, parallel_upload_files, sequential_upload_files,
  files_to_check, st_size,
  checked, sign_errors,
  up, up_seen, seq_pos, seq_results, packages_hrefs,
  response_payload, report_calls, reported,
  calls

inputs == <<keyid, task_packages, notar_enabled, parallel_upload>>
fetchv == <<dl, fetched, pkg_info_mapping, downloaded>>
verifyv == <<verify_seen, pkg_verification_mapping>>
fsv == <<dirExists, files>>
planv ==
  <<plan_pos, files_to_upload, parallel_upload_files, sequential_upload_files,
    files_to_check, st_size>>
auditv == <<checked, sign_errors>>
uploadv == <<up, up_seen, seq_pos, seq_results, packages_hrefs>>
reportv == <<report_calls, reported>>

\* The loop of lines 195-217 on its own: the paths the glob returned, the
\* position of the loop in them, the batch being filled, the invocations of
\* sign_rpm_package made so far and where the loop stands.
VARIABLES glob_rpms, glob_pos, packages_to_sign, sign_rpm_calls, batch_pc

batchv == <<glob_rpms, glob_pos, packages_to_sign, sign_rpm_calls, batch_pc>>

\* check() of _check_signature on its own: the file it is given, the task's
\* key identifier, and what it returned.
VARIABLES chk_header, chk_key, chk_result, chk_pc

checkv == <<chk_header, chk_key, chk_result, chk_pc>>

\* sign_deb_package on its own: the members of the .deb archive on disk (by
\* name, in archive order), the list _list_ar_contents returned, the loop's
\* position, the members written to combined-contents, and the signature
\* gpg.sign_file produced; whether the temporary directory exists, and the
\* exception that is being raised.
VARIABLES deb_archive, file_names, deb_pos, contents_file, gpgorigin_file, deb_pc,
          tmp_dir, deb_exc

debv == <<deb_archive, file_names, deb_pos, contents_file, gpgorigin_file, deb_pc,
          tmp_dir, deb_exc>>

\* One worker pool on its own: the stage it belongs to and the state of each
\* unit submitted to it.
VARIABLES pool_stage, pool, pool_pc

poolv == <<pool_stage, pool, pool_pc>>

\* sign_dsc_package on its own: the key, the file at `path` as it was and as
\* it is, the file at `path`.asc, the status gpg reported and the exception
\* raised.
VARIABLES dsc_key, dsc_original, dsc_file, asc_file, dsc_status, dsc_exc, dsc_pc

dscv == <<dsc_key, dsc_original, dsc_file, asc_file, dsc_status, dsc_exc, dsc_pc>>

\* The download destinations on their own: the descriptors of a task, each
\* with the platform it is listed under; the descriptors whose download has
\* run; the writes made (path, descriptor) and pkg_info_mapping.
VARIABLES path_packages, path_done, path_writes, path_info_mapping

pathv == <<path_packages, path_done, path_writes, path_info_mapping>>

\* sign_rpm_package on its own: the paths of the caller's batch, the `path`
\* argument made of them, the pieces the argument is split into, the pieces
\* --delsign was run on, the command line that was run, and the exception.
VARIABLES rpm_batch, rpm_path, rpm_pieces, rpm_pos, delsign_calls, sign_cmd, rpm_exc, rpm_pc

rpmv == <<rpm_batch, rpm_path, rpm_pieces, rpm_pos, delsign_calls, sign_cmd, rpm_exc, rpm_pc>>

\* measure_stage and get_build_stats of the builder on their own: the
\* clock; the mappings that exist (the builder's _build_stats and the one
\* get_build_stats returned), the mapping the caller holds; the call of a
\* wrapped function that is running, what the function did and what the
\* caller of the wrapper got; the last operation.
VARIABLES clock, stats_maps, held, stage_call, fn_outcome, wrapped_outcome, last_op

stagev == <<clock, stats_maps, held, stage_call, fn_outcome, wrapped_outcome, last_op>>

\* the parts run alone that the signing loop, check() and sign_deb_package
\* leave alone
laterv == <<poolv, dscv, pathv, rpmv, stagev>>

unitv == <<batchv, checkv, debv, laterv>>

mainv ==
  <<inputs, pc, exc, stats, sign_status, fetchv, packages, verifyv, fsv, planv, auditv, uploadv,
    response_payload, reportv, calls>>

vars == <<mainv, unitv>>

Ids == 1..Len(task_packages)

\* ----------------------------------------------------------------- helpers
Min(a, b) == IF a < b THEN a ELSE b

SeqToSet(s) == { s[k] : k \in 1..Len(s) }

NoExc == [type |-> "", errors |-> <<>>]

Exc(type, kind, file, signer) ==
  [type |-> type, errors |-> << [kind |-> kind, file |-> file, signer |-> signer] >>]

\* download_package: deb and dsc go to debs_dir, everything else to rpms_dir
DownloadDir(pkg) ==
  IF pkg.type \in {"deb", "dsc"} THEN "debs" ELSE "rpms"

\* _download_package: <download_dir>/<platform>/<id>/<file_name>
PkgPath(i) ==
  <<DownloadDir(task_packages[i]), "", i, task_packages[i].file_name>>

\* glob.glob(os.path.join(dir, '**/*.<ext>'), recursive=True)
Glob(dir, ext) ==
  { i \in files : PkgPath(i)[1] = dir /\ PkgPath(i)[4][2] = ext }

\* ThreadPoolExecutor: a worker that finishes takes the oldest queued item
Promote(st, started) ==
  IF \E j \in DOMAIN st : st[j].st = "queued"
  THEN LET j == CHOOSE j \in DOMAIN st :
                  /\ st[j].st = "queued"
                  /\ \A k \in DOMAIN st : st[k].st = "queued" => j <= k
       IN  [st EXCEPT ![j] = started]
  ELSE st

\* An executor that starts a thread for every unit submitted
SubmitUnbounded(items, width, started) == [k \in 1..Len(items) |-> started]

\* ThreadPoolExecutor.submit of every item: the first `width` items start
Submit(items, width, started) ==
  [k \in 1..Len(items) |-> IF k <= width THEN started ELSE [started EXCEPT !.st = "queued"]]

\* A pool whose with block is left without waiting for its workers
FinishedNoWait(st) == TRUE

Finished(st) == \A k \in DOMAIN st : st[k].st \notin {"queued", "running"}

\* A signer that uploads straight after planning, without the audit
NextStageSkipAudit(stage) ==
  CASE stage = "fetch" -> "verify"
    [] stage = "verify" -> "sign"
    [] stage = "sign" -> "plan"
    [] stage = "plan" -> "upload_seq"
    [] stage = "audit" -> "upload"

\* The order of the stages in the try block of _sign_build (lines 151-334)
NextStage(stage) ==
  CASE stage = "fetch" -> "verify"
    [] stage = "verify" -> "sign"
    [] stage = "sign" -> "plan"
    [] stage = "plan" -> "audit"
    [] stage = "audit" -> "upload"

\* A signer that ignores the audit's errors
AuditFailedNever(errors) == FALSE

\* line 292: the audit fails the task when it returned any error
AuditFailed(errors) == errors # <<>>

\* -------------------------------------------------------------------- Init
NoCalls == [i \in Ids |-> 0]

\* The signing loop and check() before they run
BatchIdle ==
  /\ glob_rpms = <<>>
  /\ glob_pos = 1
  /\ packages_to_sign = <<>>
  /\ sign_rpm_calls = <<>>
  /\ batch_pc = "idle"

NoSignature == [over |-> <<>>, detach |-> FALSE, status |-> ""]

DebIdle ==
  /\ deb_archive = <<>>
  /\ file_names = <<>>
  /\ deb_pos = 1
  /\ contents_file = <<>>
  /\ gpgorigin_file = NoSignature
  /\ deb_pc = "idle"
  /\ tmp_dir = FALSE
  /\ deb_exc = ""

PoolIdle ==
  /\ pool_stage = "download"
  /\ pool = <<>>
  /\ pool_pc = "idle"

Absent == <<"absent">>

DscIdle ==
  /\ dsc_key = "AB"
  /\ dsc_original = Absent
  /\ dsc_file = Absent
  /\ asc_file = Absent
  /\ dsc_status = ""
  /\ dsc_exc = ""
  /\ dsc_pc = "idle"

PathIdle ==
  /\ path_packages = <<>>
  /\ path_done = {}
  /\ path_writes = {}
  /\ path_info_mapping = <<>>

RpmIdle ==
  /\ rpm_batch = <<>>
  /\ rpm_path = <<>>
  /\ rpm_pieces = <<>>
  /\ rpm_pos = 1
  /\ delsign_calls = <<>>
  /\ sign_cmd = <<>>
  /\ rpm_exc = ""
  /\ rpm_pc = "idle"

NoCall == [stage |-> "", start_time |-> 0]

NoOutcome == [kind |-> "", value |-> ""]

StageIdle ==
  /\ clock = 0
  /\ stats_maps = [m \in {"_build_stats"} |-> <<>>]
  /\ held = ""
  /\ stage_call = NoCall
  /\ fn_outcome = NoOutcome
  /\ wrapped_outcome = NoOutcome
  /\ last_op = "idle"

LaterIdle == PoolIdle /\ DscIdle /\ PathIdle /\ RpmIdle /\ StageIdle

CheckIdle ==
  /\ chk_header = [exists |-> FALSE, signed |-> FALSE, signers |-> <<>>]
  /\ chk_key = "AB"
  /\ chk_result = <<>>
  /\ chk_pc = "idle"

\* The state before _sign_build runs, for a task drawn from `tasks`
MainInit(tasks) ==
  /\ keyid \in TaskKeyIds
  /\ task_packages \in tasks
  /\ notar_enabled \in BOOLEAN
  /\ parallel_upload \in BOOLEAN
  /\ pc = "start"
  /\ exc = NoExc
  /\ stats = {}
  /\ sign_status = ""
  /\ dl = <<>>
  /\ fetched = {}
  /\ pkg_info_mapping = {}
  /\ downloaded = <<>>
  /\ packages = <<>>
  /\ verify_seen = {}
  /\ pkg_verification_mapping = {}
  /\ dirExists = FALSE
  /\ files = {}
  /\ plan_pos = 1
  /\ files_to_upload = {}
  /\ parallel_upload_files = <<>>
  /\ sequential_upload_files = <<>>
  /\ files_to_check = <<>>
  /\ st_size = <<>>
  /\ checked = <<>>
  /\ sign_errors = <<>>
  /\ up = <<>>
  /\ up_seen = {}
  /\ seq_pos = 1
  /\ seq_results = <<>>
  /\ packages_hrefs = <<>>
  /\ response_payload =
       [keys |-> {}, success |-> FALSE, error_message |-> NoExc, packages |-> <<>>]
  /\ report_calls = 0
  /\ reported = <<>>
  /\ calls =
       [verify |-> NoCalls, sign |-> NoCalls, notarize |-> NoCalls,
        hash |-> NoCalls, check |-> NoCalls, upload |-> NoCalls]

InitOn(tasks) == BatchIdle /\ CheckIdle /\ DebIdle /\ LaterIdle /\ MainInit(tasks)

Init == InitOn(Tasks)

\* _sign_build not running: the state in which a part of it is run alone
MainIdle ==
  /\ MainInit({<<>>})
  /\ keyid = "AB"
  /\ notar_enabled = FALSE
  /\ parallel_upload = FALSE

\* ------------------------------------------------------- the except clause
\* A signer that records the error and carries on with the stage it is in
FailContinue(e) ==
  /\ response_payload' =
       [response_payload EXCEPT
          !.success = FALSE,
          !.keys = @ \cup {"error_message"},
          !.error_message = e]
  /\ exc' = NoExc
  /\ pc' = IF pc = "fetch_join" THEN "verify" ELSE IF pc = "upload_join" THEN "upload_seq" ELSE pc

\* A signer whose except clause records the message and leaves the success
\* flag as the try block set it
FailKeepsSuccess(e) ==
  /\ response_payload' =
       [response_payload EXCEPT
          !.keys = @ \cup {"error_message"},
          !.error_message = e]
  /\ exc' = NoExc
  /\ pc' = "report"

\* lines 348-351: any exception of the try block becomes a failed payload,
\* and control falls into the finally block
Fail(e) ==
  /\ response_payload' =
       [response_payload EXCEPT
          !.success = FALSE,
          !.keys = @ \cup {"error_message"},
          !.error_message = e]
  /\ exc' = NoExc
  /\ pc' = "report"

\* ---------------------------------------------------- lines 136-169: start
\* lines 411-412: a worker enters _download_package with i = 1 and no error
\* recorded.  last_exc is the number of the attempt whose error is recorded
\* (0: none); the record of a finished download forgets its counter.
FirstAttempt == [st |-> "running", try |-> 1, last_exc |-> 0]

\* The key identifier is resolved before the try block; then every download
\* is submitted.  A worker that starts creates its package directory under
\* the staging directory (safe_mkdir, line 407).
Start ==
  /\ pc = "start"
  /\ IF keyid = NoKeyId
     THEN /\ pc' = "raised"
          /\ exc' = Exc("SignError", "no_keyid", 0, "")
          /\ UNCHANGED <<dl, dirExists, response_payload>>
     ELSE IF keyid \notin DOMAIN key_ids
     THEN /\ pc' = "raised"
          /\ exc' = Exc("KeyError", "keyid", 0, "")
          /\ UNCHANGED <<dl, dirExists, response_payload>>
     ELSE /\ pc' = "fetch"
          /\ exc' = NoExc
          /\ response_payload' =
               [keys |-> {"build_id", "success"}, success |-> TRUE,
                error_message |-> NoExc, packages |-> <<>>]
          /\ dl' = Submit(task_packages, FetchPoolWidth, FirstAttempt)
          /\ dirExists' = (Len(task_packages) > 0)
  /\ stats' = {"sign_task_start_time"}
  /\ UNCHANGED <<unitv, inputs, sign_status, fetched, pkg_info_mapping, downloaded, packages, verifyv,
                 files, planv, auditv, uploadv, reportv, calls>>

\* ------------------------------------------- _download_package, one attempt
\* the error that download_file raised in attempt t
AttemptError(t) ==
  CASE t = 1 -> "error of attempt 1"
    [] t = 2 -> "error of attempt 2"
    [] t = 3 -> "error of attempt 3"
    [] OTHER -> "error of a later attempt"

\* A loop that makes one attempt too many
MayRetryOnceMore(t) == t <= try_count

\* line 412: range(1, try_count + 1) has a value after t
MayRetry(t) == t < try_count

DownloadAttempt(i) ==
  /\ pc \in {"fetch", "fetch_join"}
  /\ i \in DOMAIN dl
  /\ dl[i].st = "running"
  /\ \E ok \in BOOLEAN :
       IF ok
       THEN /\ dl' = Promote([dl EXCEPT ![i] = [st |-> "ok", try |-> 0, last_exc |-> 0]],
                             FirstAttempt)
            /\ files' = files \cup {i}
            /\ pkg_info_mapping' = pkg_info_mapping \cup {i}
       ELSE /\ IF MayRetry(dl[i].try)
               THEN dl' = [dl EXCEPT ![i].try = @ + 1, ![i].last_exc = dl[i].try]
               ELSE dl' = Promote([dl EXCEPT ![i].st = "failed",
                                             ![i].last_exc = dl[i].try],
                                  FirstAttempt)
            /\ UNCHANGED <<files, pkg_info_mapping>>
  /\ UNCHANGED <<unitv, inputs, sign_status, stats, pc, exc, fetched, downloaded, packages, verifyv, dirExists,
                 planv, auditv, uploadv, response_payload, reportv, calls>>

\* ------------------------------------ lines 171-178: one as_completed round
SignedPackage(i) ==
  [name |-> task_packages[i].name,
   fingerprint |-> key_ids[keyid].fingerprint,
   cas_hash |-> task_packages[i].cas_hash,
   sha256 |-> "",
   href |-> 0]

FetchResult(i) ==
  /\ pc = "fetch"
  /\ i \in DOMAIN dl
  /\ i \notin fetched
  /\ dl[i].st \in {"ok", "failed"}
  /\ fetched' = fetched \cup {i}
  /\ IF dl[i].st = "ok"
     THEN /\ packages' = packages @@ (i :> SignedPackage(i))
          /\ downloaded' = Append(downloaded, i)
          /\ UNCHANGED <<pc, exc>>
     ELSE /\ pc' = "fetch_join"
          /\ exc' = Exc("ConnectionError", AttemptError(dl[i].last_exc), i, "")
          /\ UNCHANGED <<packages, downloaded>>
  /\ UNCHANGED <<unitv, inputs, sign_status, stats, dl, pkg_info_mapping, verifyv, fsv, planv, auditv, uploadv,
                 response_payload, reportv, calls>>

\* line 152: leaving the with block waits for every submitted download
FetchJoin ==
  /\ pc = "fetch_join"
  /\ Finished(dl)
  /\ Fail(exc)
  /\ UNCHANGED <<unitv, inputs, sign_status, stats, fetchv, packages, verifyv, fsv, planv, auditv, uploadv,
                 reportv, calls>>

FetchDone ==
  /\ pc = "fetch"
  /\ fetched = DOMAIN dl
  /\ pc' = NextStage("fetch")
  /\ UNCHANGED <<unitv, inputs, sign_status, stats, exc, fetchv, packages, verifyv, fsv, planv, auditv, uploadv,
                 response_payload, reportv, calls>>

\* ------------------------------------------------ lines 181-188: verify
Bump(op, S) ==
  [calls EXCEPT ![op] = [i \in Ids |-> IF i \in S THEN @[i] + 1 ELSE @[i]]]

VerifyOutcomes == {"attested", "nothing", "raises"}

\* A signer that verifies an artifact as soon as its download worker is done
VerifyInWorker == pc \in {"fetch", "verify"}

\* lines 179-181: the verification loop stands after the with block of the
\* download pool, in the thread of _sign_build
VerifyInOrchestrator == pc = "verify"

\* A signer that takes an empty verification for an attestation
VerificationMissingIgnored(r) == FALSE

\* line 184: `if not verification`
VerificationMissing(r) == r = "nothing"

\* A signer that verifies whenever the descriptor has a cas_hash, whatever
\* the configuration says
NeedsVerificationNoFlag(i) == task_packages[i].cas_hash # ""

\* line 182: self._notar_enabled and pkg_info.get('cas_hash')
NeedsVerification(i) == notar_enabled /\ task_packages[i].cas_hash # ""

\* pkg_info_mapping is filled by the download workers in the order in which
\* they finish, which nothing else records: the loop of line 181 visits its
\* keys in that order, that is, in any order.
\* pkg_verification_mapping holds the paths mapped to an attestation: a path
\* mapped to None reads as absent at line 252-253.
VerifyStep(i) ==
  /\ VerifyInOrchestrator
  /\ i \in pkg_info_mapping \ verify_seen
  /\ IF NeedsVerification(i)
     THEN /\ calls' = Bump("verify", {i})
          /\ \E r \in VerifyOutcomes :
               IF r = "raises"
               THEN /\ Fail(Exc("VerifyError", "verify", i, ""))
                    /\ UNCHANGED verifyv
               ELSE IF VerificationMissing(r)
               THEN /\ Fail(Exc("SignError", "cannot_be_verified", i, ""))
                    /\ UNCHANGED verifyv
               ELSE /\ pkg_verification_mapping' =
                         IF r = "attested"
                         THEN pkg_verification_mapping \cup {i}
                         ELSE pkg_verification_mapping
                    /\ verify_seen' = verify_seen \cup {i}
                    /\ UNCHANGED <<pc, exc, response_payload>>
     ELSE /\ verify_seen' = verify_seen \cup {i}
          /\ UNCHANGED <<pc, exc, response_payload, pkg_verification_mapping, calls>>
  /\ UNCHANGED <<unitv, inputs, sign_status, stats, fetchv, packages, fsv, planv, auditv, uploadv, reportv>>

VerifyDone ==
  /\ pc = "verify"
  /\ verify_seen = pkg_info_mapping
  /\ pc' = NextStage("verify")
  /\ stats' = stats \cup {"download_packages_time"}
  /\ UNCHANGED <<unitv, inputs, sign_status, exc, fetchv, packages, verifyv, fsv, planv, auditv, uploadv,
                 response_payload, reportv, calls>>

\* -------------------------------------------------- lines 195-237: signing
Unsigned(S) == { i \in S : calls.sign[i] = 0 }

RpmsLeft == Unsigned(Glob("rpms", "rpm"))
DebsLeft == Unsigned(Glob("debs", "deb"))
DscsLeft == Unsigned(Glob("debs", "dsc"))

\* sign_rpm_package (package_sign.py): a failed --delsign, a timeout and a
\* non-zero exit status all raise PackageSignError
RpmSignOutcomes == {"ok", "delsign_failed", "timeout", "nonzero"}

\* gpg.sign_file status seen by sign_deb_package and sign_dsc_package
GpgOutcomes == {"signature created", "other"}

\* A signer interface that checks the exit of rpmsign and not gpg's status
SignRaisesRpmOnly(r) == r \in {"delsign_failed", "timeout", "nonzero"}

\* package_sign.py lines 283-287, 295-314 (rpm), 182-187 (deb), 230-236 (dsc):
\* the outcomes on which the signer raises PackageSignError
SignRaises(r) == r \notin {"ok", "signature created"}

\* One invocation of a signer on the paths S, with outcome r
SignInvocation(S, r) ==
  /\ calls' = Bump("sign", S)
  /\ sign_status' = r
  /\ IF SignRaises(r)
     THEN Fail(Exc("PackageSignError", "sign", 0, ""))
     ELSE UNCHANGED <<pc, exc, response_payload>>
  /\ UNCHANGED <<unitv, inputs, stats, fetchv, packages, verifyv, fsv, planv, auditv, uploadv, reportv>>

\* lines 196-217: the glob is cut into invocations of RpmBatchSize paths and
\* a last, shorter one
SignRpmBatch ==
  /\ pc = "sign"
  /\ RpmsLeft # {}
  /\ \E batch \in SUBSET RpmsLeft :
       /\ Cardinality(batch) = Min(RpmBatchSize, Cardinality(RpmsLeft))
       /\ \E r \in RpmSignOutcomes : SignInvocation(batch, r)

\* A signing block whose deb and dsc loops do not wait for the rpm loop
RpmLoopOverEarly == TRUE

\* lines 196-217 stand before line 218: the deb loop starts when the rpm
\* loop and the invocation after it are over
RpmLoopOver == RpmsLeft = {}

\* lines 218-227
SignDeb(i) ==
  /\ pc = "sign"
  /\ RpmLoopOver
  /\ i \in DebsLeft
  /\ \E r \in GpgOutcomes : SignInvocation({i}, r)

\* lines 228-237
SignDsc(i) ==
  /\ pc = "sign"
  /\ RpmLoopOver
  /\ DebsLeft = {}
  /\ i \in DscsLeft
  /\ \E r \in GpgOutcomes : SignInvocation({i}, r)

SignDone ==
  /\ pc = "sign"
  /\ RpmsLeft = {}
  /\ DebsLeft = {}
  /\ DscsLeft = {}
  /\ pc' = NextStage("sign")
  /\ stats' = stats \cup {"sign_packages_time"}
  /\ UNCHANGED <<unitv, inputs, sign_status, exc, fetchv, packages, verifyv, fsv, planv, auditv, uploadv,
                 response_payload, reportv, calls>>

\* ------------------------------------- lines 251-279: notarize, hash, plan
\* A planner that sends a file of exactly the threshold size to the
\* sequential set
ParallelEligibleBelow(size) ==
  parallel_upload /\ size < DEFAULT_PARALLEL_FILE_UPLOAD_SIZE

\* lines 258-262
ParallelEligible(size) ==
  parallel_upload /\ size <= DEFAULT_PARALLEL_FILE_UPLOAD_SIZE

\* line 277: '.rpm' in package_path
LooksLikeRpm(i) == PkgPath(i)[4][2] = "rpm"

\* A planner that queues every artifact, seen hash or not
PlanArtifactNoDedup(i, sha, size) ==
  /\ IF ParallelEligible(size)
     THEN /\ parallel_upload_files' = Append(parallel_upload_files, i)
          /\ UNCHANGED sequential_upload_files
     ELSE /\ sequential_upload_files' = Append(sequential_upload_files, i)
          /\ UNCHANGED parallel_upload_files
  /\ files_to_upload' = files_to_upload \cup {sha}
  /\ files_to_check' =
       IF LooksLikeRpm(i) THEN Append(files_to_check, i) ELSE files_to_check
  /\ plan_pos' = plan_pos + 1

\* A planner that deduplicates on the hash the caller supplied
DedupKeyPreSign(i, sha) == task_packages[i].cas_hash

\* lines 256-257, 274: the key of files_to_upload and of the two upload
\* dicts is sha256, the hash hash_file has just read from the signed file
DedupKey(i, sha) == sha

\* lines 256-279 for artifact i with hash sha and size size
PlanArtifact(i, sha, size) ==
  /\ IF DedupKey(i, sha) \notin files_to_upload
     THEN /\ IF ParallelEligible(size)
             THEN /\ parallel_upload_files' = Append(parallel_upload_files, i)
                  /\ UNCHANGED sequential_upload_files
             ELSE /\ sequential_upload_files' = Append(sequential_upload_files, i)
                  /\ UNCHANGED parallel_upload_files
          /\ files_to_upload' = files_to_upload \cup {DedupKey(i, sha)}
          /\ files_to_check' =
               IF LooksLikeRpm(i) THEN Append(files_to_check, i) ELSE files_to_check
     ELSE UNCHANGED <<files_to_upload, parallel_upload_files, sequential_upload_files,
                      files_to_check>>
  /\ plan_pos' = plan_pos + 1

\* A planner that stops after the first artifact
PlanCompleteEarly == plan_pos > Min(1, Len(downloaded))

\* line 251: the planning loop has visited every downloaded artifact
PlanComplete == plan_pos > Len(downloaded)

\* lines 257-260: os.stat is reached for a hash not seen before, when
\* config.parallel_upload is set; st_size maps such a hash to the size read.
\* The sizes are temporaries of the planning loop: they are gone when it ends.
StatCalled(sha) == parallel_upload /\ sha \notin files_to_upload

PlanStep ==
  /\ pc = "plan"
  /\ plan_pos <= Len(downloaded)
  /\ LET i == downloaded[plan_pos]
         notarize == notar_enabled /\ i \in pkg_verification_mapping
     IN  \E notarized \in BOOLEAN :
           /\ notarized \/ notarize
           /\ IF notarize /\ ~notarized
              THEN /\ calls' = Bump("notarize", {i})
                   /\ Fail(Exc("NotarizeError", "notarize", i, ""))
                   /\ UNCHANGED <<packages, planv>>
              ELSE \E sha \in Hashes : \E size \in FileSizes :
                     /\ calls' =
                          [calls EXCEPT
                             !.notarize[i] = IF notarize THEN @ + 1 ELSE @,
                             !.hash[i] = @ + 1]
                     /\ PlanArtifact(i, sha, size)
                     /\ st_size' =
                          IF StatCalled(sha) THEN st_size @@ (sha :> size) ELSE st_size
                     /\ packages' =
                          [packages EXCEPT
                             ![i].cas_hash = IF notarize THEN "notarized" ELSE @,
                             ![i].sha256 = sha]
                     /\ UNCHANGED <<pc, exc, response_payload>>
  /\ UNCHANGED <<unitv, inputs, sign_status, stats, fetchv, verifyv, fsv, auditv, uploadv, reportv>>

PlanDone ==
  /\ pc = "plan"
  /\ PlanComplete
  /\ pc' = NextStage("plan")
  /\ stats' = stats \cup {"notarization_packages_time"}
  /\ st_size' = <<>>
  /\ UNCHANGED <<plan_pos, files_to_upload, parallel_upload_files,
                 sequential_upload_files, files_to_check>>
  /\ UNCHANGED <<unitv, inputs, sign_status, exc, fetchv, packages, verifyv, fsv, auditv, uploadv,
                 response_payload, reportv, calls>>

\* ------------------------------------------- _check_signature, lines 52-99
\* A check that compares the signer and the key identifiers as they are written
checkCaseSensitive(header, key_id) ==
  LET subkeys == SeqToSet(key_ids[key_id].subkeys)
      sigs == header.signers
      good == \E k \in 1..Len(sigs) : sigs[k] = key_id \/ sigs[k] \in subkeys
  IN  IF ~header.exists THEN <<"READ_ERROR", "">>
      ELSE IF ~header.signed THEN <<"NO_SIGNATURE", "">>
      ELSE IF good THEN <<"SUCCESS", "">>
      ELSE <<"WRONG_SIGNATURE", IF sigs = <<>> THEN "" ELSE sigs[Len(sigs)]>>

\* lines 59-81: the classification of one file and the signer it reports
check(header, key_id) ==
  LET key_id_lower == Lower(key_id)
      subkeys == { Lower(key_ids[key_id].subkeys[k]) :
                     k \in 1..Len(key_ids[key_id].subkeys) }
      sigs == [k \in 1..Len(header.signers) |-> Lower(header.signers[k])]
      good == \E k \in 1..Len(sigs) : sigs[k] = key_id_lower \/ sigs[k] \in subkeys
  IN  IF ~header.exists THEN <<"READ_ERROR", "">>
      ELSE IF ~header.signed THEN <<"NO_SIGNATURE", "">>
      ELSE IF good THEN <<"SUCCESS", "">>
      ELSE <<"WRONG_SIGNATURE", IF sigs = <<>> THEN "" ELSE sigs[Len(sigs)]>>

\* lines 86-97: one as_completed round of the audit
CheckFile(i) ==
  /\ pc = "audit"
  /\ i \in SeqToSet(files_to_check) \ DOMAIN checked
  /\ \E header \in Headers :
       LET r == check(header, keyid) IN
         /\ checked' = checked @@ (i :> [status |-> r[1], signer |-> r[2]])
         /\ sign_errors' =
              IF r[1] = "SUCCESS"
              THEN sign_errors
              ELSE Append(sign_errors, [kind |-> r[1], file |-> i, signer |-> r[2]])
  /\ calls' = Bump("check", {i})
  /\ UNCHANGED <<unitv, inputs, sign_status, stats, pc, exc, fetchv, packages, verifyv, fsv, planv, uploadv,
                 response_payload, reportv>>

\* lines 287-312: the audit's verdict, then the submit of the parallel set
AuditDone ==
  /\ pc = "audit"
  /\ DOMAIN checked = SeqToSet(files_to_check)
  /\ IF AuditFailed(sign_errors)
     THEN /\ Fail([type |-> "SignError", errors |-> sign_errors])
          /\ UNCHANGED <<up, calls>>
     ELSE /\ pc' = NextStage("audit")
          /\ up' = Submit(parallel_upload_files, UploadPoolWidth, [st |-> "running"])
          /\ calls' =
               Bump("upload",
                    { parallel_upload_files[k] :
                        k \in 1..Min(UploadPoolWidth, Len(parallel_upload_files)) })
          /\ UNCHANGED <<exc, response_payload>>
  /\ stats' = stats \cup {"signature_check_packages_time"}
  /\ UNCHANGED <<unitv, inputs, sign_status, fetchv, packages, verifyv, fsv, planv, auditv, up_seen,
                 seq_pos, seq_results, packages_hrefs, reportv>>

\* ------------------------------------------------- lines 301-334: uploads
\* The href the upload collaborator returns for artifact i
Href(i) == i

UploadOutcomes == {"ok", "nothing", "raises"}

\* _upload_artifact running in a worker of the pool of line 301
UploadWorker(k) ==
  /\ pc \in {"upload", "upload_join"}
  /\ k \in DOMAIN up
  /\ up[k].st = "running"
  /\ \E r \in UploadOutcomes :
       LET done == [up EXCEPT ![k].st = r]
           next == Promote(done, [st |-> "running"])
       IN  /\ up' = next
           /\ calls' =
                Bump("upload",
                     { parallel_upload_files[j] :
                         j \in { j \in DOMAIN up : next[j].st = "running"
                                                    /\ up[j].st = "queued" } })
  /\ UNCHANGED <<unitv, inputs, sign_status, stats, pc, exc, fetchv, packages, verifyv, fsv, planv, auditv,
                 up_seen, seq_pos, seq_results, packages_hrefs, response_payload, reportv>>

\* lines 313-318: one as_completed round
UploadResult(k) ==
  /\ pc = "upload"
  /\ k \in DOMAIN up
  /\ k \notin up_seen
  /\ up[k].st \in UploadOutcomes
  /\ up_seen' = up_seen \cup {k}
  /\ LET i == parallel_upload_files[k] IN
       CASE up[k].st = "ok" ->
              /\ packages' = [packages EXCEPT ![i].href = Href(i)]
              /\ packages_hrefs' =
                   [n \in DOMAIN packages_hrefs \cup {packages[i].name} |->
                      IF n = packages[i].name THEN Href(i) ELSE packages_hrefs[n]]
              /\ UNCHANGED <<pc, exc>>
         [] up[k].st = "nothing" ->
              /\ pc' = "upload_join"
              /\ exc' = Exc("AttributeError", "href", i, "")
              /\ UNCHANGED <<packages, packages_hrefs>>
         [] up[k].st = "raises" ->
              /\ pc' = "upload_join"
              /\ exc' = Exc("UploadError", "upload", i, "")
              /\ UNCHANGED <<packages, packages_hrefs>>
  /\ UNCHANGED <<unitv, inputs, sign_status, stats, fetchv, verifyv, fsv, planv, auditv, up, seq_pos, seq_results,
                 response_payload, reportv, calls>>

\* line 301: leaving the with block waits for every submitted upload
UploadJoin ==
  /\ pc = "upload_join"
  /\ Finished(up)
  /\ Fail(exc)
  /\ UNCHANGED <<unitv, inputs, sign_status, stats, fetchv, packages, verifyv, fsv, planv, auditv, uploadv,
                 reportv, calls>>

\* An upload block whose sequential loop does not wait for the pool
ParallelUploadsJoinedEarly == TRUE

\* lines 313-318 and the end of the with block of line 301: the loop over
\* as_completed has read the result of every submitted upload
ParallelUploadsJoined == up_seen = DOMAIN up

UploadParallelDone ==
  /\ pc = "upload"
  /\ ParallelUploadsJoined
  /\ pc' = "upload_seq"
  /\ UNCHANGED <<unitv, inputs, sign_status, stats, exc, fetchv, packages, verifyv, fsv, planv, auditv, uploadv,
                 response_payload, reportv, calls>>

\* lines 319-334: one sequential upload; seq_results holds what each call of
\* the loop returned ("ok": a result with an href, "nothing": a falsy result)
\* or that it raised
UploadSequential ==
  /\ pc = "upload_seq"
  /\ seq_pos <= Len(sequential_upload_files)
  /\ LET i == sequential_upload_files[seq_pos]
         file_name == task_packages[i].file_name
     IN  /\ calls' = Bump("upload", {i})
         /\ \E r \in UploadOutcomes :
              /\ seq_results' = Append(seq_results, r)
              /\ CASE r = "ok" ->
                        /\ packages' = [packages EXCEPT ![i].href = Href(i)]
                        /\ packages_hrefs' =
                             [n \in DOMAIN packages_hrefs \cup {file_name} |->
                                IF n = file_name THEN Href(i) ELSE packages_hrefs[n]]
                        /\ seq_pos' = seq_pos + 1
                        /\ UNCHANGED <<pc, exc, response_payload>>
                   [] r = "nothing" ->
                        /\ seq_pos' = seq_pos + 1
                        /\ UNCHANGED <<pc, exc, response_payload, packages, packages_hrefs>>
                   [] r = "raises" ->
                        /\ Fail(Exc("UploadError", "upload", i, ""))
                        /\ UNCHANGED <<seq_pos, packages, packages_hrefs>>
  /\ UNCHANGED <<unitv, inputs, sign_status, stats, fetchv, verifyv, fsv, planv, auditv, up, up_seen, reportv>>

\* lines 335-341: packages without an href take the href recorded under
\* their name
FillHrefs ==
  [i \in DOMAIN packages |->
     IF packages[i].href = 0
     THEN [packages[i] EXCEPT !.href = packages_hrefs[packages[i].name]]
     ELSE packages[i]]

\* lines 335-347: the end of the try block
Finish ==
  /\ pc = "upload_seq"
  /\ seq_pos > Len(sequential_upload_files)
  /\ IF /\ parallel_upload
        /\ \E i \in DOMAIN packages :
             packages[i].href = 0 /\ packages[i].name \notin DOMAIN packages_hrefs
     THEN /\ Fail(Exc("KeyError", "packages_hrefs", 0, ""))
          /\ UNCHANGED <<packages, stats>>
     ELSE /\ packages' = IF parallel_upload THEN FillHrefs ELSE packages
          /\ response_payload' =
               [response_payload EXCEPT
                  !.keys = @ \cup {"packages", "stats"},
                  !.packages = packages']
          /\ stats' = stats \cup {"upload_packages_time"}
          /\ pc' = "report"
          /\ UNCHANGED exc
  /\ UNCHANGED <<unitv, inputs, sign_status, fetchv, verifyv, fsv, planv, auditv, uploadv, reportv, calls>>

\* ------------------------------------------------ lines 352-357: finally
Report ==
  /\ pc = "report"
  /\ report_calls' = report_calls + 1
  /\ reported' = Append(reported, response_payload)
  /\ \E ok \in BOOLEAN :
       IF ok
       THEN pc' = "cleanup" /\ exc' = NoExc
       ELSE pc' = "raised" /\ exc' = Exc("ReportError", "report", 0, "")
  /\ UNCHANGED <<unitv, inputs, sign_status, stats, fetchv, packages, verifyv, fsv, planv, auditv, uploadv,
                 response_payload, calls>>

Cleanup ==
  /\ pc = "cleanup"
  /\ dirExists' = FALSE
  /\ files' = {}
  /\ pc' = "returned"
  /\ UNCHANGED <<unitv, inputs, sign_status, stats, exc, fetchv, packages, verifyv, planv, auditv, uploadv,
                 response_payload, reportv, calls>>

Next ==
  \/ Start
  \/ \E i \in Ids : DownloadAttempt(i)
  \/ \E i \in Ids : FetchResult(i)
  \/ FetchJoin
  \/ FetchDone
  \/ \E i \in Ids : VerifyStep(i)
  \/ VerifyDone
  \/ SignRpmBatch
  \/ \E i \in Ids : SignDeb(i)
  \/ \E i \in Ids : SignDsc(i)
  \/ SignDone
  \/ PlanStep
  \/ PlanDone
  \/ \E i \in Ids : CheckFile(i)
  \/ AuditDone
  \/ \E k \in Ids : UploadWorker(k)
  \/ \E k \in Ids : UploadResult(k)
  \/ UploadJoin
  \/ UploadParallelDone
  \/ UploadSequential
  \/ Finish
  \/ Report
  \/ Cleanup

Spec == Init /\ [][Next]_vars

\* The same program on tasks whose file names need not match their kinds
InitNames == InitOn(NamedTasks)

SpecNames == InitNames /\ [][Next]_vars

\* ------------------------------------ lines 195-217: the RPM signing loop
MaxRpms == 130

\* what glob.glob may return: any number of distinct paths
GlobResults == { [k \in 1..n |-> k] : n \in 0..MaxRpms }

InitBatch ==
  /\ MainIdle
  /\ CheckIdle
  /\ DebIdle
  /\ LaterIdle
  /\ glob_rpms \in GlobResults
  /\ glob_pos = 1
  /\ packages_to_sign = <<>>
  /\ sign_rpm_calls = <<>>
  /\ batch_pc = "loop"

\* A loop that leaves everything to the invocation after the loop
BatchNeverFull(n) == FALSE

\* line 201: len(packages_to_sign) % 50 == 0
BatchFull(n) == n % RpmBatchSize = 0

\* lines 196-209: one round of the loop; sign_rpm_package returns or raises
BatchAppend ==
  /\ batch_pc = "loop"
  /\ glob_pos <= Len(glob_rpms)
  /\ glob_pos' = glob_pos + 1
  /\ LET appended == Append(packages_to_sign, glob_rpms[glob_pos]) IN
       IF BatchFull(Len(appended))
       THEN /\ sign_rpm_calls' = Append(sign_rpm_calls, appended)
            /\ \E r \in RpmSignOutcomes :
                 IF r = "ok"
                 THEN packages_to_sign' = <<>> /\ batch_pc' = "loop"
                 ELSE packages_to_sign' = appended /\ batch_pc' = "raised"
       ELSE /\ packages_to_sign' = appended
            /\ UNCHANGED <<sign_rpm_calls, batch_pc>>
  /\ UNCHANGED <<mainv, checkv, debv, laterv, glob_rpms>>

\* lines 210-217: the invocation after the loop
BatchFlush ==
  /\ batch_pc = "loop"
  /\ glob_pos > Len(glob_rpms)
  /\ IF packages_to_sign # <<>>
     THEN /\ sign_rpm_calls' = Append(sign_rpm_calls, packages_to_sign)
          /\ \E r \in RpmSignOutcomes :
               batch_pc' = IF r = "ok" THEN "done" ELSE "raised"
     ELSE /\ batch_pc' = "done"
          /\ UNCHANGED sign_rpm_calls
  /\ UNCHANGED <<mainv, checkv, debv, laterv, glob_rpms, glob_pos, packages_to_sign>>

NextBatch == BatchAppend \/ BatchFlush

SpecBatch == InitBatch /\ [][NextBatch]_vars

\* ------------------------------------- lines 59-81: check() on one file
MaxSignatures == 2

\* the signers a signature message may name
SignerIds == {"AB", "ab", "cd", "EF", "GH", "EE", "XX"}

\* what check() may find at a path: no file, a header without a signature,
\* or a signature message with up to MaxSignatures signatures
CheckHeaders ==
  { [exists |-> FALSE, signed |-> FALSE, signers |-> <<>>],
    [exists |-> TRUE, signed |-> FALSE, signers |-> <<>>] }
  \cup { [exists |-> TRUE, signed |-> TRUE, signers |-> sg] :
            sg \in UNION { [1..n -> SignerIds] : n \in 0..MaxSignatures } }

InitCheck ==
  /\ MainIdle
  /\ BatchIdle
  /\ DebIdle
  /\ LaterIdle
  /\ chk_header \in CheckHeaders
  /\ chk_key \in DOMAIN key_ids
  /\ chk_result = <<>>
  /\ chk_pc = "call"

\* one call of check(), lines 59-81
CheckApply ==
  /\ chk_pc = "call"
  /\ chk_result' = check(chk_header, chk_key)
  /\ chk_pc' = "done"
  /\ UNCHANGED <<mainv, batchv, debv, laterv, chk_header, chk_key>>

NextCheck == CheckApply

SpecCheck == InitCheck /\ [][NextCheck]_vars

\* ------------------------- package_sign.py lines 140-199: sign_deb_package
MaxMembers == 3

\* the names an archive member may have
MemberNames == {"debian-binary", "control.tar.gz", "data.tar.gz", "_gpgorigin"}

\* a .deb before it is signed: up to MaxMembers members with distinct names
DebArchives ==
  { a \in UNION { [1..n -> MemberNames] : n \in 0..MaxMembers } :
      \A j, k \in DOMAIN a : a[j] = a[k] => j = k }

\* Python 3 values: a bytes object and a str are different values, whatever
\* their characters
Bytes(text) == [type |-> "bytes", text |-> text]

Str(text) == [type |-> "str", text |-> text]

\* lines 41-57: Popen without text mode hands stdout over as bytes, and
\* file_names.split() is a list of bytes, one per listed member
_list_ar_contents(archive) == [k \in DOMAIN archive |-> Bytes(archive[k])]

\* line 167: file_name == '_gpgorigin'
IsGpgOrigin(file_name) == file_name = Str("_gpgorigin")

\* what gpg.sign_file may report
GpgStatuses == {"signature created", "bad passphrase"}

InitDeb ==
  /\ MainIdle
  /\ BatchIdle
  /\ CheckIdle
  /\ LaterIdle
  /\ deb_archive \in DebArchives
  /\ file_names = <<>>
  /\ deb_pos = 1
  /\ contents_file = <<>>
  /\ gpgorigin_file = NoSignature
  /\ deb_pc = "list"
  /\ tmp_dir = TRUE
  /\ deb_exc = ""

\* What a statement of the try block may do: go on, raise PackageSignError
\* (the helpers of lines 19-137, line 183), or raise something else (Popen
\* or open() failing with OSError)
TryOutcomes == {"ok", "PackageSignError", "OSError"}

\* the statement raises e: control goes to the except clauses
DebRaise(e) == deb_pc' = "except" /\ deb_exc' = e

\* An except clause that lets every exception through as it is
HandledAsIs(e) == e

\* lines 190-197: PackageSignError is raised again, any other Exception is
\* raised as PackageSignError
Handled(e) == IF e = "PackageSignError" THEN e ELSE "PackageSignError"

\* line 162: ar t returns the listing or fails (lines 48-56)
DebList ==
  /\ deb_pc = "list"
  /\ \E r \in TryOutcomes :
       IF r = "ok"
       THEN /\ file_names' = _list_ar_contents(deb_archive)
            /\ deb_pc' = "loop"
            /\ UNCHANGED deb_exc
       ELSE file_names' = file_names /\ DebRaise(r)
  /\ UNCHANGED <<mainv, batchv, checkv, laterv, deb_archive, deb_pos, contents_file, gpgorigin_file,
                 tmp_dir>>

\* lines 166-169: one round of the loop; ar p writes the member to
\* combined-contents or fails (lines 89-101)
DebUnpack ==
  /\ deb_pc = "loop"
  /\ deb_pos <= Len(file_names)
  /\ IF IsGpgOrigin(file_names[deb_pos])
     THEN /\ deb_pos' = deb_pos + 1
          /\ UNCHANGED <<contents_file, deb_pc, deb_exc>>
     ELSE \E r \in TryOutcomes :
            IF r = "ok"
            THEN /\ contents_file' = Append(contents_file, file_names[deb_pos].text)
                 /\ deb_pos' = deb_pos + 1
                 /\ UNCHANGED <<deb_pc, deb_exc>>
            ELSE /\ DebRaise(r)
                 /\ UNCHANGED <<contents_file, deb_pos>>
  /\ UNCHANGED <<mainv, batchv, checkv, laterv, deb_archive, file_names, gpgorigin_file, tmp_dir>>

\* lines 171-187: a detached binary signature of combined-contents, written
\* to _gpgorigin; any status but 'signature created' raises
DebSignFile ==
  /\ deb_pc = "loop"
  /\ deb_pos > Len(file_names)
  /\ \E status \in GpgStatuses :
       /\ gpgorigin_file' =
            [over |-> IF status = "signature created" THEN contents_file ELSE <<>>,
             detach |-> TRUE,
             status |-> status]
       /\ IF status # "signature created"
          THEN DebRaise("PackageSignError")
          ELSE deb_pc' = "append" /\ UNCHANGED deb_exc
  /\ UNCHANGED <<mainv, batchv, checkv, laterv, deb_archive, file_names, deb_pos, contents_file,
                 tmp_dir>>

\* line 189: ar q appends the file _gpgorigin as a member of that name, or
\* fails (lines 129-137)
DebAppend ==
  /\ deb_pc = "append"
  /\ \E r \in TryOutcomes :
       IF r = "ok"
       THEN /\ deb_archive' = Append(deb_archive, "_gpgorigin")
            /\ deb_pc' = "finally"
            /\ UNCHANGED deb_exc
       ELSE deb_archive' = deb_archive /\ DebRaise(r)
  /\ UNCHANGED <<mainv, batchv, checkv, laterv, file_names, deb_pos, contents_file, gpgorigin_file,
                 tmp_dir>>

\* lines 190-199: the except clauses, then the finally clause, which removes
\* the temporary directory on the way out
DebExit ==
  /\ deb_pc \in {"except", "finally"}
  /\ tmp_dir' = FALSE
  /\ IF deb_pc = "except"
     THEN deb_exc' = Handled(deb_exc) /\ deb_pc' = "raised"
     ELSE deb_exc' = deb_exc /\ deb_pc' = "done"
  /\ UNCHANGED <<mainv, batchv, checkv, laterv, deb_archive, file_names, deb_pos, contents_file,
                 gpgorigin_file>>

NextDeb == DebList \/ DebUnpack \/ DebSignFile \/ DebAppend \/ DebExit

SpecDeb == InitDeb /\ [][NextDeb]_vars

\* ------------- lines 83, 152, 301: the three pools, each run on its own
MaxUnits == 11

PoolStages == {"download", "audit", "upload"}

\* max_workers of the pool of each stage
PoolWidth(stage) ==
  CASE stage = "download" -> FetchPoolWidth
    [] stage = "audit" -> AuditPoolWidth
    [] stage = "upload" -> UploadPoolWidth

InitPool ==
  /\ MainIdle
  /\ BatchIdle
  /\ CheckIdle
  /\ DebIdle
  /\ DscIdle
  /\ PathIdle
  /\ RpmIdle
  /\ StageIdle
  /\ pool_stage \in PoolStages
  /\ pool = <<>>
  /\ pool_pc = "submit"

\* lines 84, 153-169, 302-312: every unit of the stage is submitted when the
\* pool is entered
PoolSubmit ==
  /\ pool_pc = "submit"
  /\ \E n \in 0..MaxUnits :
       pool' = Submit([k \in 1..n |-> k], PoolWidth(pool_stage), [st |-> "running"])
  /\ pool_pc' = "run"
  /\ UNCHANGED <<mainv, batchv, checkv, debv, dscv, pathv, rpmv, stagev, pool_stage>>

\* a unit ends, and its worker takes the next unit; how the unit ended
\* (returned or raised) makes no difference to the pool
PoolWorkerEnds(k) ==
  /\ pool_pc = "run"
  /\ k \in DOMAIN pool
  /\ pool[k].st = "running"
  /\ pool' = Promote([pool EXCEPT ![k].st = "ok"], [st |-> "running"])
  /\ UNCHANGED <<mainv, batchv, checkv, debv, dscv, pathv, rpmv, stagev, pool_stage, pool_pc>>

\* the with block is left when every unit has ended
PoolExit ==
  /\ pool_pc = "run"
  /\ Finished(pool)
  /\ pool_pc' = "closed"
  /\ UNCHANGED <<mainv, batchv, checkv, debv, dscv, pathv, rpmv, stagev, pool_stage, pool>>

NextPool == PoolSubmit \/ (\E k \in 1..MaxUnits : PoolWorkerEnds(k)) \/ PoolExit

SpecPool == InitPool /\ [][NextPool]_vars

\* -------------------------- package_sign.py lines 202-237: sign_dsc_package
\* what a file may hold before the call
PlainContents == { <<"plain", c>> : c \in {"d1", "d2", "d3"} }

\* gpg.sign_file without detach: the text, clear-signed with the key
ClearSigned(content, key) == <<"clearsigned", content, key>>

\* what gpg may leave at the output path when it does not create a signature
Partial == <<"partial">>

InitDsc ==
  /\ MainIdle
  /\ BatchIdle
  /\ CheckIdle
  /\ DebIdle
  /\ PoolIdle
  /\ PathIdle
  /\ RpmIdle
  /\ StageIdle
  /\ dsc_key \in DOMAIN key_ids
  /\ dsc_original \in PlainContents
  /\ dsc_file = dsc_original
  /\ asc_file \in PlainContents \cup {Absent, Partial}
  /\ dsc_status = ""
  /\ dsc_exc = ""
  /\ dsc_pc = "sign"

\* A signer that moves the output whatever gpg reported
DscSignedAlways(status) == TRUE

\* line 230: rslt.status != 'signature created' raises
DscSigned(status) == status = "signature created"

\* lines 222-236: gpg writes to `path`.asc; without a signature the output
\* file is as it was or partly written
DscSignFile ==
  /\ dsc_pc = "sign"
  /\ \E status \in GpgStatuses :
       /\ dsc_status' = status
       /\ IF status = "signature created"
          THEN asc_file' = ClearSigned(dsc_file, dsc_key)
          ELSE asc_file' \in {asc_file, Partial}
       /\ IF DscSigned(status)
          THEN dsc_pc' = "move" /\ dsc_exc' = dsc_exc
          ELSE dsc_pc' = "raised" /\ dsc_exc' = "PackageSignError"
  /\ UNCHANGED <<mainv, batchv, checkv, debv, poolv, pathv, rpmv, stagev, dsc_key, dsc_original, dsc_file>>

\* line 237: shutil.move(output_path, path), which renames the output over
\* the original or fails and leaves both
DscMove ==
  /\ dsc_pc = "move"
  /\ \E ok \in BOOLEAN :
       IF ok /\ asc_file # Absent
       THEN /\ dsc_file' = asc_file
            /\ asc_file' = Absent
            /\ dsc_pc' = "done"
            /\ dsc_exc' = dsc_exc
       ELSE /\ dsc_pc' = "raised"
            /\ dsc_exc' = "OSError"
            /\ UNCHANGED <<dsc_file, asc_file>>
  /\ UNCHANGED <<mainv, batchv, checkv, debv, poolv, pathv, rpmv, stagev, dsc_key, dsc_original, dsc_status>>

NextDsc == DscSignFile \/ DscMove

SpecDsc == InitDsc /\ [][NextDsc]_vars

\* ------------- lines 119-134, 403-409: where a descriptor is downloaded to
MaxDescriptors == 2

\* Python's None, for a task whose packages are a list (line 166)
NoPlatform == "<None>"

\* the keys of task['packages'] when it is a dict (line 161)
PlatformKeys == {"", "1", "el8"}

\* A descriptor with the platform it is listed under.  An id, a platform and
\* a file name may spell the same text: "1" is there to show it.
PathDescriptors(platforms) ==
  [id : {1, 2}, type : {"rpm", "deb"}, file_name : {"a.rpm", "1"}, platform : platforms]

\* a task lists its packages flat, or grouped by platform
PathTasks ==
  UNION { [1..n -> PathDescriptors({NoPlatform})] \cup [1..n -> PathDescriptors(PlatformKeys)] :
            n \in 0..MaxDescriptors }

\* str(package['id'])
IdStr(id) == CASE id = 1 -> "1" [] id = 2 -> "2"

\* line 403: platform if platform else ''
PlatformDir(platform) == IF platform \in {NoPlatform, ""} THEN "" ELSE platform

\* os.path.join of relative components without separators: the path is the
\* components in order, an empty component adding nothing
PathJoin(components) ==
  LET NonEmpty(c) == c # "" IN SelectSeq(components, NonEmpty)

\* A destination that leaves the id out
DestPathNoId(d) ==
  PathJoin(<<DownloadDir(d), PlatformDir(d.platform), d.file_name>>)

\* lines 404-409: os.path.join(download_dir, platform_dir, str(id)) joined
\* with the file name
DestPath(d) ==
  PathJoin(<<DownloadDir(d), PlatformDir(d.platform), IdStr(d.id), d.file_name>>)

InitPath ==
  /\ MainIdle
  /\ BatchIdle
  /\ CheckIdle
  /\ DebIdle
  /\ PoolIdle
  /\ DscIdle
  /\ RpmIdle
  /\ StageIdle
  /\ path_packages \in PathTasks
  /\ path_done = {}
  /\ path_writes = {}
  /\ path_info_mapping = <<>>

\* lines 119-134: one worker runs download_package for descriptor k: the
\* file is written at its destination and pkg_info_mapping[pkg_path] = pkg
PathDownload(k) ==
  /\ k \in DOMAIN path_packages \ path_done
  /\ LET pkg_path == DestPath(path_packages[k]) IN
       /\ path_writes' = path_writes \cup {<<pkg_path, k>>}
       /\ path_info_mapping' =
            [q \in DOMAIN path_info_mapping \cup {pkg_path} |->
               IF q = pkg_path THEN k ELSE path_info_mapping[q]]
  /\ path_done' = path_done \cup {k}
  /\ UNCHANGED <<mainv, batchv, checkv, debv, poolv, dscv, rpmv, stagev, path_packages>>

NextPath == \E k \in 1..MaxDescriptors : PathDownload(k)

SpecPath == InitPath /\ [][NextPath]_vars

\* ------------------------- package_sign.py lines 240-314: sign_rpm_package
MaxBatch == 2
MaxPathLen == 3

\* the characters of a path: letters and the space
PathChars == {"a", "b", " "}

\* A path is a text of up to MaxPathLen characters that neither starts nor
\* ends with a space: a staging directory or a file name may have a space
\* in it.
RpmPaths ==
  { t \in UNION { [1..n -> PathChars] : n \in 1..MaxPathLen } :
      t[1] # " " /\ t[Len(t)] # " " }

\* the batches base_signer.py hands over at lines 202 and 211: never empty
RpmBatches == UNION { [1..n -> RpmPaths] : n \in 1..MaxBatch }

\* ' '.join(packages_to_sign), base_signer.py lines 203, 212
RECURSIVE JoinSpace(_)
JoinSpace(paths) ==
  IF Len(paths) = 1 THEN paths[1]
  ELSE paths[1] \o <<" ">> \o JoinSpace(Tail(paths))

\* line 277: path.split(' '), the texts between the spaces
RECURSIVE SplitSpace(_, _)
SplitSpace(text, piece) ==
  IF text = <<>> THEN <<piece>>
  ELSE IF Head(text) = " " THEN <<piece>> \o SplitSpace(Tail(text), <<>>)
  ELSE SplitSpace(Tail(text), Append(piece, Head(text)))

InitRpm ==
  /\ MainIdle
  /\ BatchIdle
  /\ CheckIdle
  /\ DebIdle
  /\ PoolIdle
  /\ DscIdle
  /\ PathIdle
  /\ StageIdle
  /\ rpm_batch \in RpmBatches
  /\ rpm_path = <<>>
  /\ rpm_pieces = <<>>
  /\ rpm_pos = 1
  /\ delsign_calls = <<>>
  /\ sign_cmd = <<>>
  /\ rpm_exc = ""
  /\ rpm_pc = "call"

\* the call: the batch becomes the `path` argument, which line 277 splits
RpmCall ==
  /\ rpm_pc = "call"
  /\ rpm_path' = JoinSpace(rpm_batch)
  /\ rpm_pieces' = SplitSpace(rpm_path', <<>>)
  /\ rpm_pc' = "delsign"
  /\ UNCHANGED <<mainv, batchv, checkv, debv, poolv, dscv, pathv, stagev, rpm_batch, rpm_pos,
                 delsign_calls, sign_cmd, rpm_exc>>

\* lines 277-287: rpmsign --delsign on one piece; a non-zero code raises
RpmDelsign ==
  /\ rpm_pc = "delsign"
  /\ rpm_pos <= Len(rpm_pieces)
  /\ delsign_calls' = Append(delsign_calls, rpm_pieces[rpm_pos])
  /\ \E code \in {0, 1} :
       IF code # 0
       THEN /\ rpm_exc' = "PackageSignError"
            /\ rpm_pc' = "raised"
            /\ UNCHANGED rpm_pos
       ELSE /\ rpm_pos' = rpm_pos + 1
            /\ UNCHANGED <<rpm_exc, rpm_pc>>
  /\ UNCHANGED <<mainv, batchv, checkv, debv, poolv, dscv, pathv, stagev, rpm_batch, rpm_path,
                 rpm_pieces, sign_cmd>>

\* lines 288-314: the signing command on the whole argument; a timeout and
\* a non-zero status raise
RpmSign ==
  /\ rpm_pc = "delsign"
  /\ rpm_pos > Len(rpm_pieces)
  /\ sign_cmd' = rpm_path
  /\ \E status \in {"None", "0", "1"} :
       IF status = "0"
       THEN rpm_pc' = "done" /\ UNCHANGED rpm_exc
       ELSE rpm_pc' = "raised" /\ rpm_exc' = "PackageSignError"
  /\ UNCHANGED <<mainv, batchv, checkv, debv, poolv, dscv, pathv, stagev, rpm_batch, rpm_path,
                 rpm_pieces, rpm_pos, delsign_calls>>

NextRpm == RpmCall \/ RpmDelsign \/ RpmSign

SpecRpm == InitRpm /\ [][NextRpm]_vars

\* ----------- base_builder.py lines 39-73, 190-200: the stage statistics
MaxClock == 3

StageNames == {"build_srpm", "build_binaries"}

\* what a wrapped function may do: return a value, raise an Exception, or
\* raise a BaseException that is no Exception
FnOutcomes ==
  { [kind |-> "returned", value |-> "result"],
    [kind |-> "raised", value |-> "BuildError"],
    [kind |-> "raised", value |-> "KeyboardInterrupt"] }

\* the keys a caller may set or delete in the mapping it holds
CallerKeys == StageNames \cup {"mine"}

\* str() of a datetime or a timedelta
TimeStr(t) == <<"str", t>>

\* lines 64-69: the entry of a stage
StageEntry(start_time, end_time) ==
  [start_ts |-> TimeStr(start_time),
   end_ts |-> TimeStr(end_time),
   delta |-> TimeStr(end_time - start_time)]

\* mapping[key] = value
SetKey(mapping, key, value) ==
  [k \in DOMAIN mapping \cup {key} |-> IF k = key THEN value ELSE mapping[k]]

\* del mapping[key]
DelKey(mapping, key) == [k \in DOMAIN mapping \ {key} |-> mapping[k]]

InitStage ==
  /\ MainIdle
  /\ BatchIdle
  /\ CheckIdle
  /\ DebIdle
  /\ PoolIdle
  /\ DscIdle
  /\ PathIdle
  /\ RpmIdle
  /\ StageIdle

\* line 57: the wrapper is called and reads the clock
StageEnter(stage) ==
  /\ stage_call = NoCall
  /\ stage_call' = [stage |-> stage, start_time |-> clock]
  /\ fn_outcome' = NoOutcome
  /\ wrapped_outcome' = NoOutcome
  /\ last_op' = "enter"
  /\ UNCHANGED <<mainv, batchv, checkv, debv, poolv, dscv, pathv, rpmv, clock, stats_maps, held>>

\* time passes while the wrapped function runs
Tick ==
  /\ stage_call # NoCall
  /\ clock < MaxClock
  /\ clock' = clock + 1
  /\ last_op' = "tick"
  /\ UNCHANGED <<mainv, batchv, checkv, debv, poolv, dscv, pathv, rpmv, stats_maps, held,
                 stage_call, fn_outcome, wrapped_outcome>>

\* A wrapper that records the stage after the return statement only
RecordedOnReturn(outcome) == outcome.kind = "returned"

\* lines 63-69: the entry is written in the finally clause, however the
\* function ended
Recorded(outcome) == TRUE

\* lines 58-69: the function returns or raises; an Exception is printed and
\* raised again (line 62), the finally clause writes the entry, and the
\* caller gets what the function returned or raised
StageExit ==
  /\ stage_call # NoCall
  /\ \E r \in FnOutcomes :
       /\ fn_outcome' = r
       /\ wrapped_outcome' = r
       /\ stats_maps' =
            IF Recorded(r)
            THEN [stats_maps EXCEPT
                    !["_build_stats"] =
                      SetKey(@, stage_call.stage, StageEntry(stage_call.start_time, clock))]
            ELSE stats_maps
  /\ stage_call' = NoCall
  /\ last_op' = "exit"
  /\ UNCHANGED <<mainv, batchv, checkv, debv, poolv, dscv, pathv, rpmv, clock, held>>

\* line 200: copy.copy makes a new mapping object; the caller is given that
\* one, not the builder's
ReturnedMapping == "copy"

\* line 200: copy.copy(self._build_stats) is a new mapping with the keys and
\* values of the builder's
GetBuildStats ==
  /\ stats_maps' =
       [m \in {"_build_stats", "copy"} |-> stats_maps["_build_stats"]]
  /\ held' = ReturnedMapping
  /\ last_op' = "get_build_stats"
  /\ UNCHANGED <<mainv, batchv, checkv, debv, poolv, dscv, pathv, rpmv, clock, stage_call,
                 fn_outcome, wrapped_outcome>>

\* the caller sets or deletes a key of the mapping it was given
CallerSetKey(key) ==
  /\ held # ""
  /\ stats_maps' = [stats_maps EXCEPT ![held] = SetKey(@, key, "changed")]
  /\ last_op' = "caller"
  /\ UNCHANGED <<mainv, batchv, checkv, debv, poolv, dscv, pathv, rpmv, clock, held, stage_call,
                 fn_outcome, wrapped_outcome>>

CallerDelKey(key) ==
  /\ held # ""
  /\ key \in DOMAIN stats_maps[held]
  /\ stats_maps' = [stats_maps EXCEPT ![held] = DelKey(@, key)]
  /\ last_op' = "caller"
  /\ UNCHANGED <<mainv, batchv, checkv, debv, poolv, dscv, pathv, rpmv, clock, held, stage_call,
                 fn_outcome, wrapped_outcome>>

NextStageStats ==
  \/ \E stage \in StageNames : StageEnter(stage)
  \/ Tick
  \/ StageExit
  \/ GetBuildStats
  \/ \E key \in CallerKeys : CallerSetKey(key)
  \/ \E key \in CallerKeys : CallerDelKey(key)

SpecStage == InitStage /\ [][NextStageStats]_vars

\* ================================================================ properties
Ended == pc \in {"returned", "raised"}

\* the except clause has run
Failed == "error_message" \in response_payload.keys

\* the try block has run to its end
Succeeded == response_payload.success /\ "packages" \in response_payload.keys

Queued == SeqToSet(parallel_upload_files) \cup SeqToSet(sequential_upload_files)

Sha(i) == packages[i].sha256

Hashed == { i \in DOMAIN packages : calls.hash[i] > 0 }

RECURSIVE Total(_, _)
Total(f, S) ==
  IF S = {} THEN 0
  ELSE LET x == CHOOSE x \in S : TRUE IN f[x] + Total(f, S \ {x})

UploadStarted == \E i \in Ids : calls.upload[i] > 0

\* the audited files that were not classified SUCCESS
Offending == { i \in DOMAIN checked : checked[i].status # "SUCCESS" }

\* C1: the upload collaborator is called at most once per content hash: every
\* hash met by the planner is queued once, in one of the two sets, an artifact
\* whose hash was seen before is not queued, and a successful task with k
\* distinct hashes has made exactly k upload calls.
C1_UploadOncePerHash ==
  /\ \A i \in Ids : calls.upload[i] <= 1 /\ (calls.upload[i] = 1 => i \in Queued)
  /\ Len(parallel_upload_files) + Len(sequential_upload_files) = Cardinality(Queued)
  /\ Queued \subseteq Hashed
  /\ \A i, j \in Queued : Sha(i) = Sha(j) => i = j
  /\ \A i \in Hashed : \E j \in Queued : Sha(j) = Sha(i)
  /\ { Sha(j) : j \in Queued } = files_to_upload
  /\ Succeeded =>
       Total(calls.upload, Ids) = Cardinality({ Sha(i) : i \in DOMAIN packages })

\* two descriptors with the same signed content, one upload call, success
C1_Witness ==
  /\ pc = "returned"
  /\ Succeeded
  /\ \E i, j \in DOMAIN packages : i # j /\ Sha(i) = Sha(j)
  /\ Total(calls.upload, Ids) = 1

\* C2: in a successful payload two results with the same sha256 carry the
\* same href, and it is the href that the upload of that hash returned (when
\* it returned one).
C2_SameHashSameHref ==
  Succeeded =>
    \A i, j \in DOMAIN response_payload.packages :
      LET pi == response_payload.packages[i]
          pj == response_payload.packages[j]
      IN  pi.sha256 = pj.sha256 =>
            /\ pi.href = pj.href
            /\ \E u \in Ids :
                 /\ calls.upload[u] = 1
                 /\ response_payload.packages[u].sha256 = pi.sha256
                 /\ response_payload.packages[u].href # 0 => pi.href = Href(u)

\* C3: when the audit classifies a file as READ_ERROR, NO_SIGNATURE or
\* WRONG_SIGNATURE no upload call is made, the payload is a failure, its
\* message names every offending file (and the signer seen on it), and this
\* is the payload that is reported.
C3_AuditFailureStopsTask ==
  Offending # {} =>
    /\ \A i \in Ids : calls.upload[i] = 0
    /\ pc # "audit" =>
         /\ ~response_payload.success
         /\ "error_message" \in response_payload.keys
         /\ "packages" \notin response_payload.keys
         /\ \A i \in Offending :
              \E k \in 1..Len(response_payload.error_message.errors) :
                LET e == response_payload.error_message.errors[k]
                IN  /\ e.file = i
                    /\ e.kind = checked[i].status
                    /\ e.signer = checked[i].signer
    /\ \A k \in 1..Len(reported) : reported[k] = response_payload
    /\ pc \in {"cleanup", "returned"} => report_calls = 1

\* two RPMs audited, one signed by the task's key and one by another key
C3_Witness ==
  /\ pc = "returned"
  /\ \E i, j \in DOMAIN checked :
       /\ checked[i].status = "SUCCESS"
       /\ checked[j].status = "WRONG_SIGNATURE"
       /\ checked[j].signer = "ee"

\* C4: the task reporter is called exactly once in every task run.
C4_ReportedExactlyOnce ==
  /\ report_calls <= 1
  /\ Ended => report_calls = 1

\* C5: when the task run is over the staging directory and the fetched
\* artifacts do not exist.
C5_StagingRemoved ==
  Ended => ~dirExists /\ files = {}

\* C6: the staging directory is removed even when the reporter call fails.
C6_RemovedWhenReportFails ==
  (report_calls = 1 /\ exc.type = "ReportError") => (Ended => ~dirExists)

\* C7: no error escapes the task run, and a task without a usable key
\* identifier is reported as a failure.
C7_NoErrorEscapes ==
  Ended =>
    /\ pc = "returned"
    /\ (keyid = NoKeyId \/ keyid \notin DOMAIN key_ids) =>
         /\ report_calls = 1
         /\ ~reported[1].success
         /\ "error_message" \in reported[1].keys

\* C8: once an error has been raised no operation of a later stage is
\* performed: the workers of the failing pool run out, nothing else is
\* called, the payload becomes a failure with the error as its message, and
\* the next step of the orchestrator is the report of that payload.
C8_FailedSkipsStages ==
  /\ [][ /\ Failed =>
              /\ calls' = calls /\ dl' = dl /\ up' = up
              /\ verifyv' = verifyv /\ planv' = planv /\ auditv' = auditv
              /\ seq_pos' = seq_pos
              /\ response_payload' = response_payload
              /\ pc = "report" =>
                   /\ report_calls' = report_calls + 1
                   /\ reported' = Append(reported, response_payload)
         /\ pc = "fetch_join" => calls' = calls /\ verifyv' = verifyv /\ planv' = planv
         /\ pc = "upload_join" =>
              /\ seq_pos' = seq_pos
              /\ \A i \in Ids :
                   calls'.upload[i] # calls.upload[i] =>
                     i \in SeqToSet(parallel_upload_files)
              /\ [calls' EXCEPT !.upload = calls.upload] = calls
         /\ (~Failed /\ Failed') =>
              /\ pc' = "report"
              /\ ~response_payload'.success
              /\ response_payload'.error_message # NoExc
              /\ "packages" \notin response_payload'.keys
       ]_vars
  /\ [](response_payload.error_message.type = "ConnectionError" =>
          calls = [verify |-> NoCalls, sign |-> NoCalls, notarize |-> NoCalls,
                   hash |-> NoCalls, check |-> NoCalls, upload |-> NoCalls])

\* a download exhausted its retries while another one succeeded, and the run
\* ended with the failure reported
C8_Witness ==
  /\ pc = "returned"
  /\ response_payload.error_message.type = "ConnectionError"
  /\ pkg_info_mapping # {}
  /\ report_calls = 1
  /\ ~reported[1].success

\* C9 as stated: no artifact is notarized or hashed before the audit has passed.
C9_AuditBeforePlanning ==
  \A i \in Ids :
    calls.hash[i] + calls.notarize[i] > 0 =>
      /\ "signature_check_packages_time" \in stats
      /\ sign_errors = <<>>

\* C9 as amended: the stages run in the order Fetching, Verifying, Signing,
\* Planning (notarize and hash), Auditing, Uploading: an operation of a stage
\* is performed only after the stage before it is complete, and the audit of
\* every file to check has passed before the first upload call.
C9_StageOrder ==
  \A i \in Ids :
    /\ calls.verify[i] > 0 =>
         /\ fetched = Ids
         /\ SeqToSet(downloaded) = Ids
         /\ pc \notin {"start", "fetch", "fetch_join"}
    /\ calls.sign[i] > 0 =>
         /\ "download_packages_time" \in stats
         /\ verify_seen = pkg_info_mapping
    /\ calls.notarize[i] + calls.hash[i] > 0 => "sign_packages_time" \in stats
    /\ calls.check[i] > 0 =>
         /\ "notarization_packages_time" \in stats
         /\ \A j \in Ids : calls.hash[j] = 1
    /\ calls.upload[i] > 0 =>
         /\ "signature_check_packages_time" \in stats
         /\ DOMAIN checked = SeqToSet(files_to_check)
         /\ \A j \in DOMAIN checked : calls.check[j] = 1
         /\ Offending = {}

\* a successful run that verified, signed, notarized, audited and uploaded
C9_Witness ==
  /\ pc = "returned"
  /\ Succeeded
  /\ \E i \in Ids :
       /\ calls.verify[i] = 1 /\ calls.sign[i] = 1 /\ calls.notarize[i] = 1
       /\ calls.check[i] = 1 /\ calls.upload[i] = 1

\* C10: when the first upload call starts every artifact has been hashed and
\* the parallel and sequential sets hold every hash, and the sets do not
\* change from then on.
C10_TwoPhase ==
  /\ [](UploadStarted =>
          /\ SeqToSet(downloaded) = Ids
          /\ \A j \in Ids : calls.hash[j] = 1 /\ Sha(j) \in files_to_upload
          /\ { Sha(j) : j \in Queued } = files_to_upload)
  /\ [][UploadStarted' =>
          /\ files_to_upload' = files_to_upload
          /\ parallel_upload_files' = parallel_upload_files
          /\ sequential_upload_files' = sequential_upload_files
          /\ calls'.hash = calls.hash]_vars

\* two artifacts planned, one in each set, and both uploads made
C10_Witness ==
  /\ pc = "upload_seq"
  /\ Len(parallel_upload_files) = 1
  /\ Len(sequential_upload_files) = 1
  /\ \A i \in Queued : calls.upload[i] = 1

\* the artifacts on which a step calls the verification collaborator
VerifyCalled == { i \in Ids : calls'.verify[i] # calls.verify[i] }

NotarizeCalled == { i \in Ids : calls'.notarize[i] # calls.notarize[i] }

\* C11: a step makes at most one call to the verification collaborator
\* (verify_artifact or notarize_artifact), the call is made by the
\* orchestrator in its verification or planning loop, and at that time no
\* worker of the download pool is running or queued and the audit and upload
\* pools do not exist yet.
C11_VerificationSequential ==
  [][ (VerifyCalled \cup NotarizeCalled # {}) =>
        /\ Cardinality(VerifyCalled) + Cardinality(NotarizeCalled) = 1
        /\ \A i \in VerifyCalled : calls'.verify[i] = calls.verify[i] + 1
        /\ \A i \in NotarizeCalled : calls'.notarize[i] = calls.notarize[i] + 1
        /\ VerifyCalled # {} => pc = "verify"
        /\ NotarizeCalled # {} => pc = "plan"
        /\ Finished(dl) /\ fetched = DOMAIN dl /\ dl' = dl
        /\ checked = <<>> /\ checked' = <<>>
        /\ up = <<>> /\ up' = <<>>
        /\ \A i \in Ids : calls.check[i] = 0 /\ calls.upload[i] = 0
    ]_vars

\* two artifacts were verified and notarized in a run that went on to audit
\* and upload with its pools
C11_Witness ==
  /\ pc = "returned"
  /\ Succeeded
  /\ Len(parallel_upload_files) = 2
  /\ \E i, j \in Ids : i # j /\ calls.verify[i] = 1 /\ calls.notarize[j] = 1
                          /\ calls.verify[j] = 1 /\ calls.notarize[i] = 1

\* the verification collaborator was called on i and gave no attestation
VerifyFailedAt(i) == calls.verify[i] > 0 /\ i \notin pkg_verification_mapping

\* C12: when the verification of an artifact raises or returns nothing the
\* task fails there: the payload is a failure that names the artifact, no
\* artifact is verified after it, nothing is signed, notarized, hashed,
\* audited or uploaded, and the reported payload has success false.
C12_VerificationFailureIsFatal ==
  \A i \in Ids :
    VerifyFailedAt(i) =>
      /\ pc \in {"report", "cleanup", "returned", "raised"}
      /\ ~response_payload.success
      /\ "error_message" \in response_payload.keys
      /\ "packages" \notin response_payload.keys
      /\ response_payload.error_message.errors[1].file = i
      /\ response_payload.error_message.errors[1].kind \in {"verify", "cannot_be_verified"}
      /\ calls.verify[i] = 1
      /\ Total(calls.verify, Ids) = Cardinality(pkg_verification_mapping) + 1
      /\ \A j \in Ids :
           /\ calls.sign[j] = 0 /\ calls.notarize[j] = 0 /\ calls.hash[j] = 0
           /\ calls.check[j] = 0 /\ calls.upload[j] = 0
      /\ \A k \in 1..Len(reported) : reported[k] = response_payload
      /\ pc \in {"cleanup", "returned", "raised"} => report_calls = 1

\* the collaborator raised on one artifact while another artifact with a
\* recorded hash was still to be verified, and the failure was reported
C12_Witness ==
  /\ pc = "returned"
  /\ report_calls = 1
  /\ \E i, j \in Ids :
       /\ VerifyFailedAt(i)
       /\ response_payload.error_message.type = "VerifyError"
       /\ j \in pkg_info_mapping /\ task_packages[j].cas_hash # ""
       /\ calls.verify[j] = 0

\* C13: when the signing stage is complete every fetched artifact has been
\* passed to a signer exactly once.
C13_EverySignedOnce ==
  "sign_packages_time" \in stats =>
    \A i \in SeqToSet(downloaded) : calls.sign[i] = 1

RECURSIVE Concat(_)
Concat(ss) == IF ss = <<>> THEN <<>> ELSE Head(ss) \o Concat(Tail(ss))

\* the paths the loop has taken from the glob so far
Taken == SubSeq(glob_rpms, 1, glob_pos - 1)

\* C14: every invocation of sign_rpm_package gets between 1 and 50 paths and
\* every one but the last exactly 50; the invocations made so far and the
\* batch being filled hold every path taken from the glob exactly once, in
\* order; when the loop is over N paths were passed in ceil(N/50)
\* invocations: none for N = 0, two for N = 100, three (50, 50, 30) for
\* N = 130.
C14_RpmBatches ==
  LET N == Len(glob_rpms)
      sizes == [k \in 1..Len(sign_rpm_calls) |-> Len(sign_rpm_calls[k])]
  IN  /\ \A k \in 1..Len(sizes) :
           /\ 1 <= sizes[k] /\ sizes[k] <= 50
           /\ k < Len(sizes) => sizes[k] = 50
      /\ batch_pc = "loop" => Concat(sign_rpm_calls) \o packages_to_sign = Taken
      /\ batch_pc = "raised" => Concat(sign_rpm_calls) = Taken
      /\ batch_pc = "done" =>
           /\ Concat(sign_rpm_calls) = glob_rpms
           /\ Len(sizes) = (N + 49) \div 50
           /\ N = 0 => sizes = <<>>
           /\ N = 100 => sizes = <<50, 50>>
           /\ N = 130 => sizes = <<50, 50, 30>>

\* 130 RPMs were signed in three invocations
C14_Witness ==
  /\ batch_pc = "done"
  /\ Len(glob_rpms) = 130
  /\ Len(sign_rpm_calls) = 3
  /\ Len(sign_rpm_calls[3]) = 30

\* the last signer invocation failed
SignFailure == sign_status \notin {"", "ok", "signature created"}

\* C15: when a signer invocation fails (rpmsign --delsign fails, the sign
\* command times out or exits non-zero, gpg's status is not 'signature
\* created') the task fails with a PackageSignError: no signer is invoked
\* again, nothing is notarized, hashed, audited or uploaded, and the reported
\* payload has success false.
C15_SignFailureAborts ==
  /\ [](SignFailure =>
          /\ pc \in {"report", "cleanup", "returned", "raised"}
          /\ ~response_payload.success
          /\ "error_message" \in response_payload.keys
          /\ "packages" \notin response_payload.keys
          /\ response_payload.error_message.type = "PackageSignError"
          /\ \A j \in Ids :
               /\ calls.sign[j] <= 1 /\ calls.notarize[j] = 0 /\ calls.hash[j] = 0
               /\ calls.check[j] = 0 /\ calls.upload[j] = 0
          /\ \A k \in 1..Len(reported) : reported[k] = response_payload
          /\ pc \in {"cleanup", "returned", "raised"} => report_calls = 1)
  /\ [][SignFailure => calls' = calls /\ sign_status' = sign_status]_vars

\* the RPM batch was signed, the signer of a deb failed on gpg's status, and
\* the dsc after it was never signed
C15_Witness ==
  /\ pc = "returned"
  /\ sign_status = "other"
  /\ report_calls = 1
  /\ \E i, j \in pkg_info_mapping :
       /\ task_packages[i].type = "deb" /\ calls.sign[i] = 1
       /\ task_packages[j].type = "dsc" /\ calls.sign[j] = 0

\* the key identifiers a signature may carry to pass for the task's key
Authorized(key_id) ==
  {Lower(key_id)} \cup { Lower(sk) : sk \in SeqToSet(key_ids[key_id].subkeys) }

\* C16: check() returns READ_ERROR for a missing file and NO_SIGNATURE for a
\* header without a signature; for a signed header it returns SUCCESS exactly
\* when the signer of one of the signatures is, letter case aside, the task's
\* key identifier or one of its subkeys, and otherwise WRONG_SIGNATURE with
\* the (lower-cased) signer of the last signature.
C16_AuditClassification ==
  chk_pc = "done" =>
    LET h == chk_header
        matches == \E k \in 1..Len(h.signers) : Lower(h.signers[k]) \in Authorized(chk_key)
    IN  /\ ~h.exists => chk_result = <<"READ_ERROR", "">>
        /\ (h.exists /\ ~h.signed) => chk_result = <<"NO_SIGNATURE", "">>
        /\ (h.exists /\ h.signed) =>
             /\ chk_result[1] \in {"SUCCESS", "WRONG_SIGNATURE"}
             /\ chk_result[1] = "SUCCESS" <=> matches
             /\ chk_result[1] = "SUCCESS" => chk_result[2] = ""
             /\ chk_result[1] = "WRONG_SIGNATURE" =>
                  chk_result[2] =
                    IF h.signers = <<>> THEN "" ELSE Lower(h.signers[Len(h.signers)])

\* the second signature of a file was made by a subkey written in another
\* letter case than in the key ring
C16_Witness ==
  /\ chk_pc = "done"
  /\ chk_key = "Gh"
  /\ chk_header.signers = <<"XX", "cd">>
  /\ chk_result = <<"SUCCESS", "">>

\* C17: a download is attempted at most 3 times; a step of a download worker
\* either ends it with success, or records the error and starts the next
\* attempt when fewer than 3 were made, or gives up after the third; a
\* finished download is never attempted again; a download that gave up
\* raises the error of its third attempt, and the task fails with it.
C17_DownloadRetries ==
  /\ [](\A i \in DOMAIN dl :
          /\ dl[i].try <= 3
          /\ dl[i].st = "running" => dl[i].try >= 1 /\ dl[i].last_exc = dl[i].try - 1
          /\ dl[i].st = "failed" => dl[i].try = 3 /\ dl[i].last_exc = 3
          /\ dl[i].st = "ok" => i \in pkg_info_mapping
          /\ (dl[i].st = "failed" /\ i \in fetched) =>
               /\ pc # "fetch"
               /\ pc # "fetch_join" =>
                    /\ ~response_payload.success
                    /\ response_payload.error_message.type = "ConnectionError"
                    /\ \E j \in DOMAIN dl :
                         /\ dl[j].st = "failed"
                         /\ response_payload.error_message.errors[1].file = j
                         /\ response_payload.error_message.errors[1].kind = AttemptError(3))
  /\ [][\A i \in DOMAIN dl :
          /\ dl[i].st \in {"ok", "failed"} => dl'[i] = dl[i]
          /\ (dl[i].st = "running" /\ dl'[i] # dl[i]) =>
               \/ dl'[i].st = "ok"
               \/ /\ dl[i].try < 3
                  /\ dl'[i] = [st |-> "running", try |-> dl[i].try + 1,
                                last_exc |-> dl[i].try]
               \/ /\ dl[i].try = 3
                  /\ dl'[i].st = "failed"]_vars

\* one download succeeded at its third attempt, another failed three times,
\* and the task reported the failure
C17_Witness ==
  /\ pc = "returned"
  /\ response_payload.error_message.type = "ConnectionError"
  /\ \E i, j \in DOMAIN dl : dl[i].st = "failed" /\ dl[j].st = "ok"
  /\ ~reported[1].success

\* the hashes queued for the parallel and for the sequential uploads
ParallelHashes == { Sha(i) : i \in SeqToSet(parallel_upload_files) }

SequentialHashes == { Sha(i) : i \in SeqToSet(sequential_upload_files) }

UploadedFor(i) == CHOOSE u \in Queued : Sha(u) = Sha(i)

\* C19: a successful payload has one result per descriptor of the task, and
\* every result carries the content hash, the fingerprint of the task's key
\* and, when the upload of its hash returned one, an href.
C19_ResultPerDescriptor ==
  Succeeded =>
    /\ DOMAIN response_payload.packages = Ids
    /\ \A i \in Ids :
         LET r == response_payload.packages[i] IN
           /\ r.name = task_packages[i].name
           /\ r.sha256 \in Hashes
           /\ r.fingerprint = key_ids[keyid].fingerprint
           /\ response_payload.packages[UploadedFor(i)].href # 0 => r.href # 0

\* C20: in a successful payload the href of every package is the href that
\* the upload of its content hash returned, whichever download and whichever
\* upload ended first.
C20_OrderIndependent ==
  Succeeded =>
    \A i \in Ids :
      response_payload.packages[UploadedFor(i)].href # 0 =>
        response_payload.packages[i].href = Href(UploadedFor(i))

\* the downloads of two descriptors with one content ended in the order of
\* the task, and the first descriptor is the one reported with the href
C20_FirstDownloadWins ==
  /\ pc = "returned"
  /\ Succeeded
  /\ downloaded = <<1, 2>>
  /\ Sha(1) = Sha(2)
  /\ response_payload.packages[1].href = Href(1)
  /\ response_payload.packages[2].href = 0

\* the same, with the downloads ended in the other order
C20_SecondDownloadWins ==
  /\ pc = "returned"
  /\ Succeeded
  /\ downloaded = <<2, 1>>
  /\ Sha(1) = Sha(2)
  /\ response_payload.packages[1].href = 0
  /\ response_payload.packages[2].href = Href(2)

\* an upload call raised or returned nothing
ParallelUploadFailed == \E k \in DOMAIN up : up[k].st \in {"nothing", "raises"}

SequentialUploadFailed == \E k \in 1..Len(seq_results) : seq_results[k] # "ok"

\* C21: when a parallel or a sequential upload call raises or returns no
\* result, no sequential upload is started after it and every payload that
\* is reported has success false.
C21_UploadFailureIsFatal ==
  /\ ParallelUploadFailed => seq_results = <<>>
  /\ \A k \in 1..Len(seq_results) : seq_results[k] # "ok" => k = Len(seq_results)
  /\ (ParallelUploadFailed \/ SequentialUploadFailed) =>
       \A k \in 1..Len(reported) : ~reported[k].success

\* The calls of the try block that raised, read from what the run recorded
\* of them and not from the payload: a download that used up its attempts, a
\* verification that raised or attested nothing, a signer invocation that
\* failed, a notarization that raised, an audit that returned errors, an
\* upload that raised (or a parallel one without a result), and the lookup of
\* line 339 for a name that has no href.
DownloadRaised == \E i \in DOMAIN dl : dl[i].st = "failed"

VerifyRaised == \E i \in Ids : calls.verify[i] > 0 /\ i \notin verify_seen

NotarizeRaised == \E i \in Ids : calls.notarize[i] > 0 /\ calls.hash[i] = 0

AuditRaised == sign_errors # <<>>

UploadRaised ==
  \/ ParallelUploadFailed
  \/ \E k \in 1..Len(seq_results) : seq_results[k] = "raises"

HrefLookupRaised ==
  /\ parallel_upload
  /\ pc \in {"report", "cleanup", "returned", "raised"}
  /\ \E i \in DOMAIN packages :
       packages[i].href = 0 /\ packages[i].name \notin DOMAIN packages_hrefs

StageRaised ==
  \/ DownloadRaised
  \/ VerifyRaised
  \/ SignFailure
  \/ NotarizeRaised
  \/ AuditRaised
  \/ UploadRaised
  \/ HrefLookupRaised

\* success with the list of every descriptor's package and no error message
SuccessShape(p) ==
  /\ p.success
  /\ p.keys = {"build_id", "success", "packages", "stats"}
  /\ DOMAIN p.packages = DOMAIN task_packages

\* failure with one error message and no list of packages
FailureShape(p) ==
  /\ ~p.success
  /\ p.keys = {"build_id", "success", "error_message"}
  /\ p.error_message.errors # <<>>

\* C22: every reported payload is either a success with the list of all the
\* task's packages and no error message, or a failure with one error message
\* and no list of packages; no payload says success in a run in which a call
\* of a stage raised.
C22_PayloadShapes ==
  \A k \in 1..Len(reported) :
    /\ SuccessShape(reported[k]) \/ FailureShape(reported[k])
    /\ StageRaised => ~reported[k].success

\* both shapes are reported: a success with two packages, and a failure
\* after a stage raised
C22_Witness ==
  /\ reported # <<>>
  /\ FailureShape(reported[1])
  /\ StageRaised
  /\ SignFailure

C22_SuccessReported ==
  /\ reported # <<>>
  /\ SuccessShape(reported[1])
  /\ Len(task_packages) = MaxPkgs

\* the steps in which hash_file, or a signer, is called
HashTaken == \E i \in Ids : calls'.hash[i] # calls.hash[i]

SignerCalled == \E i \in Ids : calls'.sign[i] # calls.sign[i]

\* C23: the key under which an artifact is deduplicated and queued for
\* upload is the hash read from its file after the signing stage ended (no
\* signer runs once a hash was read); the cas_hash of the descriptor decides
\* only whether the artifact is verified and is never the key.
C23_DedupKeyIsPostSignHash ==
  /\ [](/\ files_to_upload = { Sha(i) : i \in Hashed }
        /\ \A i \in Hashed : Sha(i) \in Hashes /\ calls.hash[i] = 1
        /\ \A i, j \in Queued : i # j => Sha(i) # Sha(j)
        /\ \A i \in Ids : calls.verify[i] > 0 => task_packages[i].cas_hash # "")
  /\ [][/\ HashTaken => pc = "plan" /\ "sign_packages_time" \in stats
        /\ Hashed # {} => ~SignerCalled]_vars

\* two artifacts with the same cas_hash and different signed contents are
\* both queued, and uploaded
C23_Witness ==
  /\ Succeeded
  /\ \E i, j \in Queued :
       /\ i # j
       /\ task_packages[i].cas_hash = "pre" /\ task_packages[j].cas_hash = "pre"
       /\ calls.verify[i] = 1 /\ calls.verify[j] = 1
       /\ calls.upload[i] = 1 /\ calls.upload[j] = 1

\* two artifacts with different cas_hash and the same signed content are
\* queued once
C23_SameContentDifferentCasHash ==
  /\ Succeeded
  /\ \E i \in Queued : \E j \in Hashed \ Queued :
       /\ task_packages[i].cas_hash # task_packages[j].cas_hash
       /\ Sha(i) = Sha(j)

\* the names of a listing, without the signature member
RECURSIVE WithoutGpgOrigin(_)
WithoutGpgOrigin(names) ==
  IF names = <<>> THEN <<>>
  ELSE IF Head(names).text = "_gpgorigin" THEN WithoutGpgOrigin(Tail(names))
  ELSE <<Head(names).text>> \o WithoutGpgOrigin(Tail(names))

C25_VerifyAndNotarizeCalls ==
  \A i \in Ids :
    /\ calls.verify[i] <= 1
    /\ calls.verify[i] = 1 =>
         notar_enabled /\ task_packages[i].cas_hash # "" /\ i \in pkg_info_mapping
    /\ (~notar_enabled \/ task_packages[i].cas_hash = "") => calls.verify[i] = 0
    /\ ("download_packages_time" \in stats /\ notar_enabled
          /\ task_packages[i].cas_hash # "") =>
         i \in pkg_info_mapping /\ calls.verify[i] = 1
    /\ calls.notarize[i] <= 1
    /\ calls.notarize[i] = 1 =>
         /\ calls.verify[i] = 1
         /\ i \in pkg_verification_mapping
         /\ "sign_packages_time" \in stats
         /\ calls.sign[i] > 0

\* a task with verification enabled: the artifact with a cas_hash was
\* verified and notarized once, the one without was neither
C25_Witness ==
  /\ Succeeded
  /\ notar_enabled
  /\ \E i, j \in Ids :
       /\ task_packages[i].cas_hash # "" /\ task_packages[j].cas_hash = ""
       /\ calls.verify[i] = 1 /\ calls.notarize[i] = 1
       /\ calls.verify[j] = 0 /\ calls.notarize[j] = 0

\* a task with verification disabled and a descriptor with a cas_hash
C25_DisabledNeverVerifies ==
  /\ Succeeded
  /\ ~notar_enabled
  /\ \E i \in Ids : task_packages[i].cas_hash # "" /\ calls.hash[i] = 1

\* the units of a pool that were submitted and have not run to their end
Pending(st) == { k \in DOMAIN st : st[k].st \in {"queued", "running"} }

\* the audit pool has not been started, or every file given to it is checked
AuditPoolIdle ==
  \/ \A i \in Ids : calls.check[i] = 0
  \/ DOMAIN checked = SeqToSet(files_to_check)

\* C26: a pool lives within its stage, and a failing worker cancels nothing:
\* no download runs outside the fetching stage, no audit outside the auditing
\* stage, no upload worker outside the parallel upload; when the task has
\* failed, and when the payload is reported, every download and every
\* parallel upload that was submitted has run to its end.
C26_PoolsWithinStages ==
  /\ pc \notin {"fetch", "fetch_join"} => Pending(dl) = {}
  /\ pc # "audit" => AuditPoolIdle
  /\ pc \notin {"upload", "upload_join"} => Pending(up) = {}
  /\ Failed => Pending(dl) = {} /\ Pending(up) = {} /\ AuditPoolIdle
  /\ report_calls > 0 => Pending(dl) = {} /\ Pending(up) = {} /\ AuditPoolIdle

\* a download failed for good, and a download whose result the orchestrator
\* never read ended well all the same before the failure was reported
C26_Witness ==
  /\ report_calls = 1
  /\ Failed
  /\ response_payload.error_message.type = "ConnectionError"
  /\ \E j \in DOMAIN dl : dl[j].st = "ok" /\ j \notin fetched

\* the same for the upload pool
C26_UploadWitness ==
  /\ report_calls = 1
  /\ Failed
  /\ response_payload.error_message.type = "UploadError"
  /\ \E k \in DOMAIN up : up[k].st = "ok" /\ k \notin up_seen

\* the paths handed to the signer in this step
SignedNow == { i \in Ids : calls'.sign[i] # calls.sign[i] }

SignedBefore(S) == \A j \in S : calls.sign[j] > 0

NotSignedYet(S) == \A j \in S : calls.sign[j] = 0

\* C27: a signer is invoked only in the signing stage, when every download
\* has ended and been read and every verification call of the task has
\* returned; each step is one invocation, of one batch of RPMs while no DEB
\* or DSC is signed, or of one DEB when every RPM is signed and no DSC is, or
\* of one DSC when every RPM and DEB is signed.
C27_SigningOrder ==
  [][ SignedNow # {} =>
        /\ pc = "sign"
        /\ Pending(dl) = {} /\ fetched = DOMAIN dl /\ dl' = dl
        /\ verify_seen = pkg_info_mapping /\ calls'.verify = calls.verify
        /\ "download_packages_time" \in stats
        /\ \A i \in SignedNow : calls'.sign[i] = calls.sign[i] + 1
        /\ \/ /\ SignedNow \subseteq Glob("rpms", "rpm")
              /\ Cardinality(SignedNow) <= RpmBatchSize
              /\ NotSignedYet(Glob("debs", "deb") \cup Glob("debs", "dsc"))
           \/ /\ Cardinality(SignedNow) = 1
              /\ SignedNow \subseteq Glob("debs", "deb")
              /\ SignedBefore(Glob("rpms", "rpm"))
              /\ NotSignedYet(Glob("debs", "dsc"))
           \/ /\ Cardinality(SignedNow) = 1
              /\ SignedNow \subseteq Glob("debs", "dsc")
              /\ SignedBefore(Glob("rpms", "rpm") \cup Glob("debs", "deb"))
    ]_vars

\* a task with an RPM and a DEB, both signed, the RPM after its verification
C27_Witness ==
  /\ "sign_packages_time" \in stats
  /\ \E i, j \in Ids :
       /\ task_packages[i].type = "rpm" /\ task_packages[j].type = "deb"
       /\ calls.sign[i] = 1 /\ calls.sign[j] = 1
       /\ calls.verify[i] = 1

\* the task has entered the upload block of lines 300-334
ReachedUploading == pc \in {"upload", "upload_join", "upload_seq"} \/ UploadStarted

AuditedSuccess(j) == j \in DOMAIN checked /\ checked[j].status = "SUCCESS"

\* C28: in a task that reaches the uploads every artifact of kind rpm was
\* audited and classified SUCCESS, or has the hash of an artifact of kind rpm
\* that was.
C28_EveryRpmAudited ==
  ReachedUploading =>
    \A i \in DOMAIN packages :
      task_packages[i].type = "rpm" =>
        \E j \in DOMAIN packages :
          /\ task_packages[j].type = "rpm"
          /\ AuditedSuccess(j)
          /\ Sha(j) = Sha(i)

\* an artifact of kind rpm whose name does not end in rpm is uploaded and
\* reported in a success payload, and was neither signed nor audited
C28_UnauditedRpmUploaded ==
  /\ pc = "returned"
  /\ Succeeded
  /\ \E i \in DOMAIN packages :
       /\ task_packages[i].type = "rpm"
       /\ calls.upload[i] = 1
       /\ calls.sign[i] = 0
       /\ calls.check[i] = 0

\* _check_signature has returned: every file it was given is classified
AuditComplete == files_to_check # <<>> /\ DOMAIN checked = SeqToSet(files_to_check)

IsOffending(i) == i \in Offending

\* the files the errors are about, in the order of the returned list
ErrorFiles == [k \in 1..Len(sign_errors) |-> sign_errors[k].file]

\* C29: the list _check_signature returns has one error for each file that
\* was not classified SUCCESS, of that file's classification, and none for a
\* file classified SUCCESS; the list depends on the files and their
\* classifications only (it follows the order of the files given), not on
\* the order in which the audit workers end.
C29_AuditErrorsDeterministic ==
  AuditComplete =>
    /\ Len(sign_errors) = Cardinality(Offending)
    /\ \A k \in 1..Len(sign_errors) :
         /\ sign_errors[k].file \in Offending
         /\ sign_errors[k].kind = checked[sign_errors[k].file].status
    /\ \A i \in Offending : \E k \in 1..Len(sign_errors) : sign_errors[k].file = i
    /\ ErrorFiles = SelectSeq(files_to_check, IsOffending)

\* two unsigned files were given in the order 1, 2; the worker of file 1
\* ended first and the message names file 1 first
C29_ErrorsInGivenOrder ==
  /\ report_calls = 1
  /\ files_to_check = <<1, 2>>
  /\ checked[1].status = "NO_SIGNATURE" /\ checked[2].status = "NO_SIGNATURE"
  /\ reported[1].error_message.type = "SignError"
  /\ reported[1].error_message.errors = sign_errors
  /\ ErrorFiles = <<1, 2>>

\* the same files with the same classifications; the worker of file 2 ended
\* first and the message names file 2 first
C29_ErrorsInCompletionOrder ==
  /\ report_calls = 1
  /\ files_to_check = <<1, 2>>
  /\ checked[1].status = "NO_SIGNATURE" /\ checked[2].status = "NO_SIGNATURE"
  /\ reported[1].error_message.type = "SignError"
  /\ reported[1].error_message.errors = sign_errors
  /\ ErrorFiles = <<2, 1>>

\* the part of C29 that does not depend on the order
C29_OneErrorPerOffendingFile ==
  AuditComplete =>
    /\ Len(sign_errors) = Cardinality(Offending)
    /\ \A i \in Offending : \E k \in 1..Len(sign_errors) :
         sign_errors[k].file = i /\ sign_errors[k].kind = checked[i].status

\* the artifacts of the sequential set whose upload is called in this step
SequentialUploadCalled ==
  { i \in SeqToSet(sequential_upload_files) : calls'.upload[i] # calls.upload[i] }

\* C30: an upload of the sequential set starts only when every upload of
\* the parallel set has ended and its result has been read; the sequential
\* uploads are called one per step, in the order of the set, each after the
\* previous one has returned.
C30_ParallelBeforeSequential ==
  /\ [](Total(calls.upload, SeqToSet(sequential_upload_files)) = Len(seq_results))
  /\ [][ SequentialUploadCalled # {} =>
          /\ pc = "upload_seq"
          /\ \A k \in DOMAIN up : up[k].st = "ok" /\ k \in up_seen
          /\ up' = up
          /\ \A k \in 1..Len(parallel_upload_files) :
               calls.upload[parallel_upload_files[k]] = 1
          /\ SequentialUploadCalled = {sequential_upload_files[seq_pos]}
          /\ seq_pos = Len(seq_results) + 1
          /\ Len(seq_results') = Len(seq_results) + 1
          /\ \A i \in Ids : calls'.upload[i] <= 1
      ]_vars

\* a task with one artifact in each set, both uploaded
C30_Witness ==
  /\ Succeeded
  /\ Len(parallel_upload_files) = 1 /\ up[1].st = "ok"
  /\ Len(sequential_upload_files) = 1 /\ seq_results = <<"ok">>

\* a task with two artifacts in the sequential set, both uploaded
C30_TwoSequentialUploads ==
  /\ Succeeded
  /\ Len(sequential_upload_files) = 2 /\ seq_results = <<"ok", "ok">>

\* the units of a pool that a worker is running
InFlight(st) == { k \in DOMAIN st : st[k].st = "running" }

\* C31: at no time does the download pool run more than 4 units, the audit
\* pool more than 10, the upload pool more than 4; a unit waits only while
\* the pool is full.
C31_PoolsBounded ==
  /\ pool_stage = "download" => Cardinality(InFlight(pool)) <= 4
  /\ pool_stage = "audit" => Cardinality(InFlight(pool)) <= 10
  /\ pool_stage = "upload" => Cardinality(InFlight(pool)) <= 4
  /\ (\E k \in DOMAIN pool : pool[k].st = "queued") =>
       Cardinality(InFlight(pool)) \in {4, 10}

\* more downloads than workers: four run, others wait, one has ended
C31_Witness ==
  /\ pool_stage = "download"
  /\ Cardinality(InFlight(pool)) = 4
  /\ \E j, k \in DOMAIN pool : pool[j].st = "queued" /\ pool[k].st = "ok"

\* eleven audit checks: ten run and one waits
C31_AuditPoolFull ==
  /\ pool_stage = "audit"
  /\ Cardinality(InFlight(pool)) = 10
  /\ \E j \in DOMAIN pool : pool[j].st = "queued"

\* C32: sign_dsc_package puts the clear-signed text in the place of the
\* original file only when gpg reported 'signature created'; on any other
\* status it raises PackageSignError and the file holds what it held.
C32_DscReplacedOnlyWhenSigned ==
  /\ dsc_file # dsc_original =>
       /\ dsc_status = "signature created"
       /\ dsc_file = <<"clearsigned", dsc_original, dsc_key>>
       /\ dsc_pc = "done"
  /\ dsc_pc = "done" => dsc_file # dsc_original /\ asc_file = <<"absent">>
  /\ dsc_status \notin {"", "signature created"} =>
       /\ dsc_pc = "raised"
       /\ dsc_exc = "PackageSignError"
       /\ dsc_file = dsc_original

\* gpg reported another status, left a part of its output, and the original
\* is as it was
C32_Witness ==
  /\ dsc_pc = "raised"
  /\ dsc_status = "bad passphrase"
  /\ asc_file = <<"partial">>
  /\ dsc_file = dsc_original

C32_Replaced ==
  /\ dsc_pc = "done"
  /\ dsc_file = <<"clearsigned", dsc_original, dsc_key>>

\* the archive as _list_ar_contents found it
ListedArchive == [k \in DOMAIN file_names |-> file_names[k].text]

\* C33: sign_deb_package raises nothing but PackageSignError, whichever of
\* the listing, an extraction, the signing or the append failed and however
\* it failed; when gpg reported another status than 'signature created' the
\* archive is as it was; the temporary directory is gone when the function
\* returns and when it raises.
C33_DebFailures ==
  /\ deb_pc = "raised" => deb_exc = "PackageSignError"
  /\ deb_pc \in {"done", "raised"} => ~tmp_dir
  /\ deb_pc = "done" => deb_exc = "" /\ gpgorigin_file.status = "signature created"
  /\ gpgorigin_file.status \notin {"", "signature created"} =>
       /\ deb_pc \in {"except", "raised"}
       /\ deb_archive = ListedArchive
  /\ deb_exc # "" => deb_pc \in {"except", "raised"}

\* the signature was created and the append failed: the caller got a
\* PackageSignError, and the temporary directory is gone
C33_Witness ==
  /\ deb_pc = "raised"
  /\ deb_exc = "PackageSignError"
  /\ gpgorigin_file.status = "signature created"
  /\ deb_archive = ListedArchive
  /\ Len(deb_archive) = MaxMembers
  /\ ~tmp_dir

\* gpg reported another status
C33_SignStatusFailure ==
  /\ deb_pc = "raised"
  /\ gpgorigin_file.status = "bad passphrase"
  /\ ~tmp_dir

\* two descriptors of the task differ in id, platform or file name
Differ(j, k) ==
  \/ path_packages[j].id # path_packages[k].id
  \/ path_packages[j].platform # path_packages[k].platform
  \/ path_packages[j].file_name # path_packages[k].file_name

\* C34: the destination of a descriptor is <kind dir>/<platform>/<id>/<file
\* name> (the platform left out when there is none); two descriptors that
\* differ in id, platform or file name are written to different paths, and
\* every path of pkg_info_mapping is the destination of the descriptor it is
\* mapped to and of no descriptor that differs from it.
C34_DistinctDestinations ==
  /\ \A w \in path_writes :
       LET d == path_packages[w[2]] IN
         /\ w[1][1] = (IF d.type \in {"deb", "dsc"} THEN "debs" ELSE "rpms")
         /\ w[1][Len(w[1])] = d.file_name
         /\ w[1][Len(w[1]) - 1] = (IF d.id = 1 THEN "1" ELSE "2")
         /\ Len(w[1]) = (IF d.platform \in {"<None>", ""} THEN 3 ELSE 4)
         /\ Len(w[1]) = 4 => w[1][2] = d.platform
  /\ \A v, w \in path_writes : (v[1] = w[1] /\ v[2] # w[2]) => ~Differ(v[2], w[2])
  /\ \A q \in DOMAIN path_info_mapping :
       /\ <<q, path_info_mapping[q]>> \in path_writes
       /\ \A k \in path_done :
            <<q, k>> \in path_writes => ~Differ(k, path_info_mapping[q])
  /\ \A k \in path_done : \E q \in DOMAIN path_info_mapping : <<q, k>> \in path_writes

\* two descriptors of one id and one file name under two platforms, one of
\* them spelled like the id, both downloaded
C34_Witness ==
  /\ path_done = {1, 2}
  /\ path_packages[1].id = path_packages[2].id
  /\ path_packages[1].file_name = path_packages[2].file_name
  /\ path_packages[1].type = path_packages[2].type
  /\ path_packages[1].platform = "" /\ path_packages[2].platform = "1"
  /\ Cardinality(DOMAIN path_info_mapping) = 2

\* the deletions made so far are the first paths of the batch, in order
DeletionsFollowBatch ==
  /\ Len(delsign_calls) <= Len(rpm_batch)
  /\ delsign_calls = SubSeq(rpm_batch, 1, Len(delsign_calls))

\* the signing command ran only after a deletion on every path, and a
\* deletion that failed was the last thing the function did
DeletionsBeforeSigning ==
  /\ sign_cmd # <<>> => rpm_pos > Len(rpm_pieces) /\ Len(delsign_calls) = Len(rpm_pieces)
  /\ (rpm_pc = "raised" /\ sign_cmd = <<>>) =>
       /\ rpm_exc = "PackageSignError"
       /\ Len(delsign_calls) = rpm_pos

\* C35: sign_rpm_package runs the deletion of the signature on the paths of
\* the batch, one after the other in the order of the batch; the signing
\* command runs only when the deletion succeeded on every path; a deletion
\* that fails raises PackageSignError, and then neither the signing command
\* nor a deletion on a later path is run.
C35_DelsignThenSign ==
  /\ DeletionsFollowBatch
  /\ DeletionsBeforeSigning
  /\ sign_cmd # <<>> => delsign_calls = rpm_batch

\* a batch of one path with a space in it: the deletion ran on the text
\* before the space, which is not a path of the batch
C35_PathWithSpace ==
  /\ rpm_batch = << <<"a", " ", "b">> >>
  /\ delsign_calls = << <<"a">> >>

\* for batches whose paths have no space the claim holds
NoSpaceInBatch ==
  \A k \in DOMAIN rpm_batch : \A c \in DOMAIN rpm_batch[k] : rpm_batch[k][c] # " "

C35_HoldsWithoutSpaces == NoSpaceInBatch => C35_DelsignThenSign

\* the builder's own statistics
BuildStats == stats_maps["_build_stats"]

====
